---- MODULE Spec2Model ----
(***************************************************************************)
(* Model of the conversational-context core of joyguard_app:               *)
(*   memory.py    History Ring, Fact Extraction Pipeline                   *)
(*   database.py  Memory Store (chat_memories / user_memories tables)      *)
(*   debate.py    Debate Decision Engine                                   *)
(*   openrouter.py the oracle call                                         *)
(*                                                                         *)
(* Python strings are sequences of one-character strings, so that strip(), *)
(* slicing and len() are computed and not assumed.  The numeric settings   *)
(* come from joyguard_app/settings.py; the model uses small stand-ins for  *)
(* them (times are in units of 10 s, confidences in tenths).               *)
(***************************************************************************)
EXTENDS Integers, Sequences, FiniteSets, TLC

VARIABLES
    chat_histories,   \* settings.chat_histories: chat id -> deque of entries
    hist_log,         \* ghost: every entry ever appended, per chat, in arrival order
    hist_pc,          \* number of store_chat_history calls made
    chat_memories,    \* table chat_memories: set of rows
    chat_mem_seq,     \* AUTOINCREMENT counter of chat_memories
    user_memories,    \* table user_memories: set of rows
    user_mem_seq,     \* AUTOINCREMENT counter of user_memories
    chat_mem_log,     \* ghost: the summaries passed to add_chat_memory, per chat, in call order
    user_mem_log,     \* ghost: the arguments of every add_user_memory call, in call order
    chat_mem_peak,    \* ghost: the most chat-memory rows one chat held in any committed state
    store_pc,         \* number of direct store calls made
    debate_enabled,   \* settings.AUTO_DEBATE_ENABLED
    debate_menu,      \* which oracle outcomes the run draws from
    now,              \* time.time(), in units of 10 s
    auto_debate_last_reply,  \* settings.auto_debate_last_reply: chat id -> time
    last_trigger,     \* ghost: chat id -> time the latest trigger was returned (0: never)
    flow,             \* the message-handling flows inside should_trigger_auto_debate
    openrouter_api_key,  \* whether settings.OPENROUTER_API_KEY is set
    task,             \* the capture tasks running store_structured_memories
    sched,            \* the callers of schedule_memory_capture, one per task
    varied,           \* a call of choose_varied_entries: its arguments and result
    AUTO_DEBATE_HISTORY_LIMIT,  \* settings.AUTO_DEBATE_HISTORY_LIMIT, as configured
    dialogue,         \* the latest dialogue context built for the oracle
    last_support_time,   \* table last_support_time: user id -> last_message_time
    support_call,        \* the latest can_send_support_message call and its result
    support_allowed_at,  \* ghost: user id -> time of the latest call that was allowed
    pending_rules_requests,  \* rules.py: chat id -> {"ts", "by"} of the open capture
    rules_call,              \* the latest rules-capture call and its result
    rules_started,           \* ghost: chat id -> time of the latest start, cancelled since
    saved_styles,             \* table saved_styles: the rows
    saved_style_seq,          \* the AUTOINCREMENT counter of saved_styles
    user_settings,            \* table user_settings: <<user id, key>> -> value
    saved_styles_cache,       \* styles.py: user id -> the cached list of saved styles
    active_saved_style_cache, \* styles.py: user id -> the active saved-style id or None
    user_style_cache,         \* styles.py: user id -> the style key or None
    user_custom_prompt_cache, \* styles.py: user id -> the custom prompt or None
    styles_call               \* the latest call of the styles module and its result

histVars == <<chat_histories, hist_log, hist_pc>>
storeVars ==
    <<chat_memories, chat_mem_seq, user_memories, user_mem_seq, chat_mem_log, user_mem_log,
      chat_mem_peak, store_pc>>
debateVars == <<debate_enabled, debate_menu, now, auto_debate_last_reply, last_trigger, flow>>
captureVars == <<task>>
\* the state of the components that only their own steps change
schedVars == <<sched>>
variedVars == <<varied>>
contextVars == <<AUTO_DEBATE_HISTORY_LIMIT, dialogue>>
supportVars == <<last_support_time, support_call, support_allowed_at>>
rulesVars == <<pending_rules_requests, rules_call, rules_started>>
stylesVars == <<saved_styles, saved_style_seq, user_settings, saved_styles_cache,
                active_saved_style_cache, user_style_cache, user_custom_prompt_cache,
                styles_call>>
moduleVars == <<supportVars, rulesVars, stylesVars>>
otherVars == <<sched, varied, AUTO_DEBATE_HISTORY_LIMIT, dialogue, moduleVars>>
vars == <<chat_histories, hist_log, hist_pc,
          chat_memories, chat_mem_seq, user_memories, user_mem_seq, chat_mem_log,
          user_mem_log, chat_mem_peak, store_pc,
          debate_enabled, debate_menu, now, auto_debate_last_reply, last_trigger, flow,
          openrouter_api_key, task, sched, varied, AUTO_DEBATE_HISTORY_LIMIT, dialogue,
          moduleVars>>

(***************************************************************************)
(* Generic helpers: Python truthiness, slicing and strip on strings.       *)
(***************************************************************************)
\* Python None where a string is expected: a sequence no string equals
None == <<"None">>

Min(a, b) == IF a <= b THEN a ELSE b
Max(a, b) == IF a >= b THEN a ELSE b

\* s[:n] of Python for n >= 0
Take(s, n) == SubSeq(s, 1, Min(n, Len(s)))

\* s[-n:] of Python for n > 0; s[-0:] is s[0:], the whole sequence
LastN(s, n) == IF n = 0 THEN s ELSE SubSeq(s, Max(1, Len(s) - n + 1), Len(s))

IsSpace(ch) == ch \in {" ", "\n"}

RECURSIVE LStrip(_)
LStrip(s) == IF s # <<>> /\ IsSpace(Head(s)) THEN LStrip(Tail(s)) ELSE s

RECURSIVE RStrip(_)
RStrip(s) ==
    IF s # <<>> /\ IsSpace(s[Len(s)]) THEN RStrip(SubSeq(s, 1, Len(s) - 1)) ELSE s

\* str.strip()
Strip(s) == RStrip(LStrip(s))

\* x or y for strings / None
Or(x, y) == IF x # None /\ x # <<>> THEN x ELSE y

(***************************************************************************)
(* Bounds and settings of the History Ring.                                *)
(***************************************************************************)
CHAT_HISTORY_LIMIT == 2

MaxHistCalls == 4

Chats == {1, 2}

GroupTypes == {"group", "supergroup"}

\* telegram users: full_name may be empty, username may be absent
UserAnn == [id |-> 1, full_name |-> <<"A", "n">>, username |-> None, is_bot |-> FALSE]
UserBob == [id |-> 2, full_name |-> <<>>, username |-> <<"b">>, is_bot |-> FALSE]
UserAnon == [id |-> 3, full_name |-> <<>>, username |-> None, is_bot |-> FALSE]
UserBot == [id |-> 4, full_name |-> <<"B", "o", "t">>, username |-> None, is_bot |-> TRUE]

\* message.from_user is None
NoUser == [id |-> 0, full_name |-> None, username |-> None, is_bot |-> FALSE]

\* str(user.id)
IdStr(id) == <<ToString(id)>>

Message(chat, ctype, user, text, caption, content_type, mid) ==
    [chat |-> chat, chat_type |-> ctype, from_user |-> user, text |-> text,
     caption |-> caption, content_type |-> content_type, message_id |-> mid]

\* the messages store_chat_history is fed with
HistMessages ==
    { Message(c, t, UserAnn, <<"h", "i">>, None, "text", 1) : c \in Chats, t \in GroupTypes }
    \cup { Message(c, "group", UserBob, None, <<"p">>, "photo", 2) : c \in Chats }
    \cup { Message(c, "group", UserAnon, None, None, "sticker", 3) : c \in Chats }
    \cup { Message(c, "group", NoUser, <<"h", "i">>, None, "text", 4) : c \in Chats }
    \cup { Message(c, "private", UserAnn, <<"h", "i">>, None, "text", 5) : c \in Chats }

(***************************************************************************)
(* memory.py: History Ring                                                 *)
(***************************************************************************)
\* faulty variant: a full deque refuses the new entry
DequeAppendDropNewest(d, e, maxlen) == IF Len(d) >= maxlen THEN d ELSE Append(d, e)

\* collections.deque(maxlen=n).append(e)
DequeAppend(d, e, maxlen) ==
    IF maxlen = 0 THEN <<>>
    ELSE IF Len(d) >= maxlen THEN Append(Tail(d), e)
    ELSE Append(d, e)

\* f"<{message.content_type}>"
ContentTypeTag(message) == <<"<", message.content_type, ">">>

\* the author of store_chat_history (memory.py:42-45)
HistoryAuthor(user) ==
    IF user.full_name # <<>> THEN user.full_name
    ELSE IF user.username # None /\ user.username # <<>> THEN <<"@">> \o user.username
    ELSE IdStr(user.id)

\* entry = f"{author}: {content}"
HistoryEntry(message) ==
    HistoryAuthor(message.from_user) \o <<":", " ">>
        \o Or(Or(message.text, message.caption), ContentTypeTag(message))

\* whether store_chat_history gets past its two early returns
HistoryAccepts(message) ==
    /\ message.chat_type \in GroupTypes
    /\ message.from_user # NoUser

\* chat_histories.setdefault(chat, deque(maxlen=LIMIT))
SetDefault(d, k, v) == IF k \in DOMAIN d THEN d ELSE (k :> v) @@ d

store_chat_history(message) ==
    /\ hist_pc < MaxHistCalls
    /\ hist_pc' = hist_pc + 1
    /\ IF HistoryAccepts(message)
       THEN LET entry == HistoryEntry(message)
                hs == SetDefault(chat_histories, message.chat, <<>>)
            IN /\ chat_histories' =
                     [hs EXCEPT ![message.chat] = DequeAppend(@, entry, CHAT_HISTORY_LIMIT)]
               /\ hist_log' = [hist_log EXCEPT ![message.chat] = Append(@, entry)]
       ELSE UNCHANGED <<chat_histories, hist_log>>

get_chat_history_entries(chat_id) ==
    IF chat_id \notin DOMAIN chat_histories THEN <<>>
    ELSE IF chat_histories[chat_id] = <<>> THEN <<>>
    ELSE chat_histories[chat_id]

HistInit ==
    /\ chat_histories = <<>>
    /\ hist_log = [c \in Chats |-> <<>>]
    /\ hist_pc = 0

HistNext ==
    \E m \in HistMessages :
        /\ store_chat_history(m)
        /\ UNCHANGED storeVars /\ UNCHANGED debateVars
        /\ UNCHANGED <<openrouter_api_key, task>>
        /\ UNCHANGED otherVars

(***************************************************************************)
(* database.py: Memory Store                                               *)
(***************************************************************************)
CHAT_MEMORY_DB_LIMIT == 2

CHAT_MEMORY_MESSAGE_CHAR_LIMIT == 2

MaxStoreCalls == 4

\* the texts handed to the store: empty, under the cap, over the cap
StoreTexts == {<<>>, <<"a">>, <<"d", "e", "f">>}

Subjects == {1, 2}

\* the row with the largest id of a non-empty set of rows
MaxRow(rows) == CHOOSE r \in rows : \A q \in rows : q.id <= r.id

\* ... ORDER BY id DESC
RECURSIVE OrderByIdDesc(_)
OrderByIdDesc(rows) ==
    IF rows = {} THEN <<>>
    ELSE <<MaxRow(rows)>> \o OrderByIdDesc(rows \ {MaxRow(rows)})

\* ... LIMIT n (a negative LIMIT is no limit in SQLite)
Limit(rowseq, n) == IF n < 0 THEN rowseq ELSE Take(rowseq, n)

\* SELECT id FROM chat_memories WHERE chat_id = ? ORDER BY id DESC LIMIT ?
NewestIds(rows, chat_id, n) ==
    LET kept == Limit(OrderByIdDesc({r \in rows : r.chat_id = chat_id}), n)
    IN {kept[i].id : i \in 1..Len(kept)}

\* faulty variant: the newest row of an over-full chat is deleted
TrimKeepOldest(rows, chat_id) ==
    LET mine == {r \in rows : r.chat_id = chat_id}
    IN IF Cardinality(mine) > CHAT_MEMORY_DB_LIMIT
       THEN rows \ {MaxRow(mine)}
       ELSE rows

\* faulty variant: the DELETE is not restricted to the chat
TrimEveryChat(rows, chat_id) ==
    {r \in rows : r.id \in NewestIds(rows, chat_id, CHAT_MEMORY_DB_LIMIT)}

\* DELETE FROM chat_memories WHERE id NOT IN (newest N of the chat) AND chat_id = ?
TrimChatMemories(rows, chat_id) ==
    {r \in rows :
        ~(r.id \notin NewestIds(rows, chat_id, CHAT_MEMORY_DB_LIMIT) /\ r.chat_id = chat_id)}

\* the INSERT of add_chat_memory: the row gets the next AUTOINCREMENT id
InsertChatMemory(rows, seq, chat_id, message_id, author_id, author_name, summary) ==
    rows \cup {[id |-> seq + 1, chat_id |-> chat_id, message_id |-> message_id,
                author_id |-> author_id, author_name |-> author_name,
                summary |-> Take(summary, CHAT_MEMORY_MESSAGE_CHAR_LIMIT)]}

\* the table after Database.add_chat_memory (insert and trim commit together)
ChatMemoriesAfterAdd(rows, seq, chat_id, message_id, author_id, author_name, summary) ==
    IF summary = <<>> THEN rows
    ELSE TrimChatMemories(
             InsertChatMemory(rows, seq, chat_id, message_id, author_id, author_name, summary),
             chat_id)

RowsOfChat(rows, chat_id) == Cardinality({r \in rows : r.chat_id = chat_id})

\* faulty variant: every statement commits on its own, so the table is also visible
\* between the INSERT and the DELETE
CommittedRowsPerStatement(rows, seq, chat_id, message_id, author_id, author_name, summary) ==
    IF summary = <<>> THEN RowsOfChat(rows, chat_id)
    ELSE RowsOfChat(InsertChatMemory(rows, seq, chat_id, message_id, author_id,
                                     author_name, summary), chat_id)

\* database.py:366: the one commit of add_chat_memory publishes the table as it is
\* after the INSERT and the DELETE; the most rows of the chat a committed state of
\* the call holds
CommittedRows(rows, seq, chat_id, message_id, author_id, author_name, summary) ==
    RowsOfChat(ChatMemoriesAfterAdd(rows, seq, chat_id, message_id, author_id,
                                    author_name, summary), chat_id)

ChatSeqAfterAdd(seq, summary) == IF summary = <<>> THEN seq ELSE seq + 1

add_chat_memory(chat_id, message_id, author_id, author_name, summary) ==
    /\ chat_memories' = ChatMemoriesAfterAdd(chat_memories, chat_mem_seq, chat_id,
                                             message_id, author_id, author_name, summary)
    /\ chat_mem_seq' = ChatSeqAfterAdd(chat_mem_seq, summary)
    /\ chat_mem_log' = [chat_mem_log EXCEPT ![chat_id] = Append(@, summary)]
    /\ chat_mem_peak' = Max(chat_mem_peak,
                            CommittedRows(chat_memories, chat_mem_seq, chat_id, message_id,
                                          author_id, author_name, summary))

\* Database.get_chat_memories
get_chat_memories(chat_id, limit) ==
    LET kept == Limit(OrderByIdDesc({r \in chat_memories : r.chat_id = chat_id}), limit)
    IN [i \in 1..Len(kept) |-> kept[i].summary]

\* faulty variant: the note is stored as passed, whatever its length
UserMemoriesAfterAddNoCap(rows, seq, chat_id, subject_user_id, source_user_id, note) ==
    IF note = <<>> THEN rows
    ELSE rows \cup {[id |-> seq + 1, chat_id |-> chat_id,
                     subject_user_id |-> subject_user_id,
                     source_user_id |-> source_user_id,
                     note |-> note]}

UserMemoriesAfterAdd(rows, seq, chat_id, subject_user_id, source_user_id, note) ==
    IF note = <<>> THEN rows
    ELSE rows \cup {[id |-> seq + 1, chat_id |-> chat_id,
                     subject_user_id |-> subject_user_id,
                     source_user_id |-> source_user_id,
                     note |-> Take(note, CHAT_MEMORY_MESSAGE_CHAR_LIMIT)]}

UserSeqAfterAdd(seq, note) == IF note = <<>> THEN seq ELSE seq + 1

\* ghost: the call is recorded with its arguments as passed
UserLogAfterAdd(log, chat_id, subject_user_id, source_user_id, note) ==
    Append(log, [chat_id |-> chat_id, subject_user_id |-> subject_user_id,
                 source_user_id |-> source_user_id, note |-> note])

add_user_memory(chat_id, subject_user_id, source_user_id, note) ==
    /\ user_memories' = UserMemoriesAfterAdd(user_memories, user_mem_seq, chat_id,
                                             subject_user_id, source_user_id, note)
    /\ user_mem_seq' = UserSeqAfterAdd(user_mem_seq, note)
    /\ user_mem_log' = UserLogAfterAdd(user_mem_log, chat_id, subject_user_id,
                                       source_user_id, note)

\* faulty variant: the notes of the subject in every chat are read
GetUserMemoriesAnyChat(chat_id, user_id, limit) ==
    LET kept == Limit(OrderByIdDesc({r \in user_memories : r.subject_user_id = user_id}),
                      limit)
    IN [i \in 1..Len(kept) |-> kept[i].note]

\* Database.get_user_memories
get_user_memories(chat_id, user_id, limit) ==
    LET kept == Limit(OrderByIdDesc({r \in user_memories :
                          r.chat_id = chat_id /\ r.subject_user_id = user_id}), limit)
    IN [i \in 1..Len(kept) |-> kept[i].note]

StoreInit ==
    /\ chat_memories = {}
    /\ chat_mem_seq = 0
    /\ user_memories = {}
    /\ user_mem_seq = 0
    /\ chat_mem_log = [c \in Chats |-> <<>>]
    /\ user_mem_log = <<>>
    /\ chat_mem_peak = 0
    /\ store_pc = 0

\* a caller adds a chat memory
CallAddChatMemory ==
    /\ store_pc < MaxStoreCalls
    /\ store_pc' = store_pc + 1
    /\ \E c \in Chats, s \in StoreTexts :
           add_chat_memory(c, 1, UserAnn.id, UserAnn.full_name, s)
    /\ UNCHANGED <<user_memories, user_mem_seq, user_mem_log>>
    /\ UNCHANGED histVars
    /\ UNCHANGED debateVars
    /\ UNCHANGED <<openrouter_api_key, task>>
    /\ UNCHANGED otherVars

\* a caller adds a user memory
CallAddUserMemory ==
    /\ store_pc < MaxStoreCalls
    /\ store_pc' = store_pc + 1
    /\ \E c \in Chats, u \in Subjects, s \in StoreTexts :
           add_user_memory(c, u, UserAnn.id, s)
    /\ UNCHANGED <<chat_memories, chat_mem_seq, chat_mem_log, chat_mem_peak>>
    /\ UNCHANGED histVars
    /\ UNCHANGED debateVars
    /\ UNCHANGED <<openrouter_api_key, task>>
    /\ UNCHANGED otherVars

StoreNext == CallAddChatMemory \/ CallAddUserMemory

(***************************************************************************)
(* JSON values as json.loads builds them, and the Python operations the    *)
(* code applies to them.  A value is [t, b, n, s]: its type tag, and its   *)
(* payload as a bool, a number (a float "num" in tenths, an "int", or the   *)
(* length of a list or dict) or a string.  "absent" is a key the object    *)
(* does not have,                                                          *)
(* "bignum" an integer literal too large for a float, "nan" the literal    *)
(* NaN that json.loads accepts.                                            *)
(***************************************************************************)
JV(t, b, n, str) == [t |-> t, b |-> b, n |-> n, s |-> str]

JAbsent == JV("absent", FALSE, 0, <<>>)
JNull == JV("null", FALSE, 0, <<>>)
JBool(b) == JV("bool", b, 0, <<>>)
JNum(n) == JV("num", FALSE, n, <<>>)
JInt(n) == JV("int", FALSE, n, <<>>)
JBigNum == JV("bignum", FALSE, 0, <<>>)
JNaN == JV("nan", FALSE, 0, <<>>)
JStr(str) == JV("str", FALSE, 0, str)
JList(len) == JV("list", FALSE, len, <<>>)
JDict(len) == JV("dict", FALSE, len, <<>>)

\* the fields debate.py reads from the parsed object
NoFields == [should_reply |-> JAbsent, confidence |-> JAbsent, reason |-> JAbsent]

\* the fields memory.py reads from the parsed object: chat_facts is a value with its
\* items (values), user_facts a value with its items (entries)
Facts(t, items) == [t |-> t, items |-> items]
Entry(t, user_id, note) == [t |-> t, user_id |-> user_id, note |-> note]
NoMemFields == [chat_facts |-> Facts("absent", <<>>), user_facts |-> Facts("absent", <<>>)]

\* a parsed top-level value: the value and, for an object, its fields
Parsed(v, d, m) == [v |-> v, d |-> d, m |-> m]

NumPresent(d) ==
    (IF d.should_reply.t # "absent" THEN 1 ELSE 0)
    + (IF d.confidence.t # "absent" THEN 1 ELSE 0)
    + (IF d.reason.t # "absent" THEN 1 ELSE 0)

\* the object {"should_reply": sr, "confidence": cf, "reason": rs}, keys absent left out
JObject(sr, cf, rs) ==
    LET d == [should_reply |-> sr, confidence |-> cf, reason |-> rs]
    IN Parsed(JDict(NumPresent(d)), d, NoMemFields)

\* the object {"chat_facts": cf, "user_facts": uf}, keys absent left out
MemObject(cf, uf) ==
    Parsed(JDict((IF cf.t # "absent" THEN 1 ELSE 0) + (IF uf.t # "absent" THEN 1 ELSE 0)),
           NoFields, [chat_facts |-> cf, user_facts |-> uf])

JScalar(v) == Parsed(v, NoFields, NoMemFields)

\* bool(x) / "if x:" of Python; an absent key reads as None
Truthy(v) ==
    CASE v.t \in {"absent", "null"} -> FALSE
      [] v.t = "bool" -> v.b
      [] v.t \in {"num", "int"} -> v.n # 0
      [] v.t \in {"bignum", "nan"} -> TRUE
      [] v.t = "str" -> v.s # <<>>
      [] v.t \in {"list", "dict"} -> v.n > 0

Digits == [c \in {"0", "1", "2", "3", "4", "5", "6", "7", "8", "9"} |->
              CASE c = "0" -> 0 [] c = "1" -> 1 [] c = "2" -> 2 [] c = "3" -> 3
                [] c = "4" -> 4 [] c = "5" -> 5 [] c = "6" -> 6 [] c = "7" -> 7
                [] c = "8" -> 8 [] c = "9" -> 9]

\* the strings float() accepts, among those the model uses: "d" and "d.d" (surrounding
\* whitespace allowed); the value is in tenths
IsFloatText(str) ==
    LET t == Strip(str)
    IN \/ Len(t) = 1 /\ t[1] \in DOMAIN Digits
       \/ Len(t) = 3 /\ t[1] \in DOMAIN Digits /\ t[2] = "." /\ t[3] \in DOMAIN Digits

FloatOfText(str) ==
    LET t == Strip(str)
    IN IF Len(t) = 1 THEN 10 * Digits[t[1]] ELSE 10 * Digits[t[1]] + Digits[t[3]]

\* float(x): "ok" with the value in tenths, or the exception raised
PyFloat(v) ==
    CASE v.t = "num" -> [exc |-> "ok", val |-> v.n, nan |-> FALSE]
      [] v.t = "int" -> [exc |-> "ok", val |-> 10 * v.n, nan |-> FALSE]
      [] v.t = "bool" -> [exc |-> "ok", val |-> IF v.b THEN 10 ELSE 0, nan |-> FALSE]
      [] v.t = "nan" -> [exc |-> "ok", val |-> 0, nan |-> TRUE]
      [] v.t = "bignum" -> [exc |-> "OverflowError", val |-> 0, nan |-> FALSE]
      [] v.t = "str" ->
            IF IsFloatText(v.s) THEN [exc |-> "ok", val |-> FloatOfText(v.s), nan |-> FALSE]
            ELSE [exc |-> "ValueError", val |-> 0, nan |-> FALSE]
      [] OTHER -> [exc |-> "TypeError", val |-> 0, nan |-> FALSE]

\* the text of a number in tenths, as the oracle writes it: 9 -> 0.9, 10 -> 1.0
NumText(n) == <<ToString(n \div 10), ".", ToString(n % 10)>>

\* the JSON text of a value (json.dumps with no spaces); list and dict members are
\* written as 0 and "k":0
RECURSIVE Repeat(_, _)
Repeat(str, k) == IF k <= 0 THEN <<>> ELSE str \o Repeat(str, k - 1)

ScalarText(v) ==
    CASE v.t = "null" -> <<"n", "u", "l", "l">>
      [] v.t = "bool" -> IF v.b THEN <<"t", "r", "u", "e">> ELSE <<"f", "a", "l", "s", "e">>
      [] v.t = "num" -> NumText(v.n)
      [] v.t = "int" -> <<ToString(v.n)>>
      [] v.t = "bignum" -> <<"1">> \o [i \in 1..400 |-> "0"]
      [] v.t = "nan" -> <<"N", "a", "N">>
      [] v.t = "str" -> <<"\"">> \o v.s \o <<"\"">>
      [] v.t = "list" -> <<"[">> \o Repeat(<<"0", ",">>, v.n - 1)
                             \o (IF v.n > 0 THEN <<"0">> ELSE <<>>) \o <<"]">>
      [] v.t = "dict" -> <<"{">> \o Repeat(<<"\"", "k", "\"", ":", "0", ",">>, v.n - 1)
                             \o (IF v.n > 0 THEN <<"\"", "k", "\"", ":", "0">> ELSE <<>>)
                             \o <<"}">>
      [] OTHER -> <<>>

KeyShouldReply == <<"s", "h", "o", "u", "l", "d", "_", "r", "e", "p", "l", "y">>
KeyConfidence == <<"c", "o", "n", "f", "i", "d", "e", "n", "c", "e">>
KeyReason == <<"r", "e", "a", "s", "o", "n">>

FieldText(key, v) ==
    IF v.t = "absent" THEN <<>> ELSE <<"\"">> \o key \o <<"\"", ":">> \o ScalarText(v) \o <<",">>

KeyChatFacts == <<"c", "h", "a", "t", "_", "f", "a", "c", "t", "s">>
KeyUserFacts == <<"u", "s", "e", "r", "_", "f", "a", "c", "t", "s">>
KeyUserId == <<"u", "s", "e", "r", "_", "i", "d">>
KeyNote == <<"n", "o", "t", "e">>

RECURSIVE JoinTexts(_)
JoinTexts(texts) ==
    IF texts = <<>> THEN <<>>
    ELSE IF Len(texts) = 1 THEN texts[1]
    ELSE texts[1] \o <<",">> \o JoinTexts(Tail(texts))

EntryText(e) ==
    IF e.t # "dict" THEN ScalarText(JV(e.t, TRUE, 1, <<"x">>))
    ELSE LET body == FieldText(KeyUserId, e.user_id) \o FieldText(KeyNote, e.note)
         IN <<"{">> \o SubSeq(body, 1, Len(body) - 1) \o <<"}">>

\* a chat_facts / user_facts member: a list is written with its items, any other value
\* as a truthy value of its type
FactsText(key, f, ItemText(_)) ==
    IF f.t = "absent" THEN <<>>
    ELSE <<"\"">> \o key \o <<"\"", ":">>
         \o (IF f.t = "list"
             THEN <<"[">> \o JoinTexts([i \in 1..Len(f.items) |-> ItemText(f.items[i])])
                      \o <<"]">>
             ELSE ScalarText(JV(f.t, TRUE, 1, <<"x">>)))
         \o <<",">>

JsonText(p) ==
    IF p.v.t = "dict" /\ p.v.n > 0
    THEN LET body == FieldText(KeyShouldReply, p.d.should_reply)
                     \o FieldText(KeyConfidence, p.d.confidence)
                     \o FieldText(KeyReason, p.d.reason)
                     \o FactsText(KeyChatFacts, p.m.chat_facts, ScalarText)
                     \o FactsText(KeyUserFacts, p.m.user_facts, EntryText)
         IN <<"{">> \o SubSeq(body, 1, Len(body) - 1) \o <<"}">>
    ELSE ScalarText(p.v)

(***************************************************************************)
(* Oracle response texts: prose (not JSON) or the text of a JSON value.    *)
(***************************************************************************)
Prose(chars) == [kind |-> "prose", chars |-> chars, json |-> JScalar(JNull)]
JsonReply(p) == [kind |-> "json", chars |-> <<>>, json |-> p]

\* the characters of a response text
RawText(r) == IF r.kind = "json" THEN JsonText(r.json) ELSE r.chars

\* call_openrouter returned None
NoResponse == [kind |-> "none", chars |-> <<>>, json |-> JScalar(JNull)]

\* str.lower() on the letters the model uses
LowerChar(ch) ==
    CASE ch = "Y" -> "y" [] ch = "E" -> "e" [] ch = "S" -> "s" [] ch = "T" -> "t"
      [] ch = "R" -> "r" [] ch = "U" -> "u" [] ch = "N" -> "n" [] ch = "O" -> "o"
      [] OTHER -> ch

Lower(str) == [i \in 1..Len(str) |-> LowerChar(str[i])]

\* needle in hay
Contains(hay, needle) ==
    \E i \in 1..(Len(hay) - Len(needle) + 1) :
        SubSeq(hay, i, i + Len(needle) - 1) = needle

(***************************************************************************)
(* openrouter.py: the oracle call.  An outcome is what the HTTP exchange   *)
(* produced: whether a credential is configured, whether the request       *)
(* failed, the status, the shape of the body and the message content.      *)
(***************************************************************************)
Outcome(key, net, status, body, ckind, content) ==
    [key |-> key, net |-> net, status |-> status, body |-> body,
     ckind |-> ckind, content |-> content]

NoKey == Outcome(FALSE, "ok", 200, "choice", "str", Prose(<<>>))
NetError == Outcome(TRUE, "error", 0, "choice", "str", Prose(<<>>))
Status(code, body) == Outcome(TRUE, "ok", code, body, "str", Prose(<<"o", "k">>))
Body(shape) == Outcome(TRUE, "ok", 200, shape, "str", Prose(<<>>))
ContentNull == Outcome(TRUE, "ok", 200, "choice", "null", Prose(<<>>))
ContentNonStr == Outcome(TRUE, "ok", 200, "choice", "nonstr", Prose(<<>>))
Content(text) == Outcome(TRUE, "ok", 200, "choice", "str", text)

Returned(value) == [exc |-> "ok", value |-> value]
RaisedBy(exc) == [exc |-> exc, value |-> NoResponse]

\* content.strip(): JSON text carries no surrounding whitespace
StripText(r) == IF r.kind = "prose" THEN Prose(Strip(r.chars)) ELSE r

\* call_openrouter: the text content, None, or the exception that escapes it
call_openrouter(o) ==
    IF ~o.key THEN Returned(NoResponse)                         \* no credential
    ELSE IF o.net = "error" THEN Returned(NoResponse)           \* caught by except Exception
    ELSE IF o.status # 200 THEN Returned(NoResponse)
    ELSE IF o.body = "notjson" THEN Returned(NoResponse)        \* json.loads raises inside try
    ELSE IF o.body = "nondict" THEN RaisedBy("AttributeError")  \* data.get outside try
    ELSE IF o.body \in {"nochoices", "emptychoices"} THEN Returned(NoResponse)
    ELSE IF o.body = "badchoice" THEN RaisedBy("AttributeError") \* choices[0].get / message.get
    ELSE IF o.ckind = "null" THEN Returned(NoResponse)
    ELSE IF o.ckind = "nonstr" THEN RaisedBy("AttributeError")  \* content.strip()
    ELSE IF RawText(o.content) = <<>> THEN Returned(NoResponse) \* content is ""
    ELSE Returned(StripText(o.content))

(***************************************************************************)
(* debate.py: Debate Decision Engine                                       *)
(***************************************************************************)
AUTO_DEBATE_COOLDOWN == 6

AUTO_DEBATE_CONFIDENCE_THRESHOLD == 6

AUTO_DEBATE_MIN_TEXT_LENGTH == 2

AUTO_DEBATE_REASON_MAX_CHARS == 3

MaxTime == 8

Flows == {"f1", "f2"}

\* the one-character ellipsis marker U+2026
Ellipsis == "ELLIPSIS"

\* _parse_json_response: the parsed value, or None when the text is not JSON
NotParsed == [ok |-> FALSE, p |-> JScalar(JNull)]

_parse_json_response(raw) ==
    IF raw.kind = "json" THEN [ok |-> TRUE, p |-> raw.json] ELSE NotParsed

\* "not parsed": None, or a falsy JSON value
ParsedFalsy(pr) == ~pr.ok \/ ~Truthy(pr.p.v)

\* faulty variant: the tokens are looked for in the text as written
HeuristicAffirmativeCaseSensitive(response) ==
    LET raw == RawText(response)
    IN Contains(raw, <<"t", "r", "u", "e">>) \/ Contains(raw, <<"y", "e", "s">>)

\* the heuristic of debate.py:96-99 on the raw response text
HeuristicAffirmative(response) ==
    LET lowered == Lower(RawText(response))
    IN Contains(lowered, <<"t", "r", "u", "e">>) \/ Contains(lowered, <<"y", "e", "s">>)

\* faulty variant: the marker is counted inside the cap
TruncateReasonToCap(reason) ==
    LET r == Strip(reason)
    IN IF Len(r) > AUTO_DEBATE_REASON_MAX_CHARS
       THEN RStrip(Take(r, AUTO_DEBATE_REASON_MAX_CHARS - 1)) \o <<Ellipsis>>
       ELSE r

\* faulty variant: the reason is not stripped first
TruncateReasonNoStrip(reason) ==
    IF Len(reason) > AUTO_DEBATE_REASON_MAX_CHARS
    THEN RStrip(Take(reason, AUTO_DEBATE_REASON_MAX_CHARS)) \o <<Ellipsis>>
    ELSE reason

\* debate.py:108-111 on a string reason
TruncateReason(reason) ==
    LET r == Strip(reason)
    IN IF Len(r) > AUTO_DEBATE_REASON_MAX_CHARS
       THEN RStrip(Take(r, AUTO_DEBATE_REASON_MAX_CHARS)) \o <<Ellipsis>>
       ELSE r

\* faulty variant: a confidence equal to the threshold is refused
TriggerConditionStrict(should_reply, conf) ==
    should_reply /\ ~conf.nan /\ conf.val > AUTO_DEBATE_CONFIDENCE_THRESHOLD

\* debate.py:113
TriggerCondition(should_reply, conf) ==
    should_reply /\ ~conf.nan /\ conf.val >= AUTO_DEBATE_CONFIDENCE_THRESHOLD

Result(exc, trigger, reason) == [exc |-> exc, trigger |-> trigger, reason |-> reason]

Conf(val) == [exc |-> "ok", val |-> val, nan |-> FALSE]

\* faulty variant: the reason is returned with a refusal too
FinishKeepingReason(should_reply, conf, reason) ==
    IF Truthy(reason) /\ reason.t # "str" THEN Result("AttributeError", FALSE, JNull)
    ELSE LET rsn == IF Truthy(reason) THEN JStr(TruncateReason(reason.s))
                    ELSE IF reason.t = "absent" THEN JNull ELSE reason
         IN Result("ok", TriggerCondition(should_reply, conf), rsn)

\* debate.py:108-123: reason handling and the decision
Finish(should_reply, conf, reason) ==
    IF Truthy(reason) /\ reason.t # "str" THEN Result("AttributeError", FALSE, JNull)
    ELSE LET rsn == IF Truthy(reason) THEN JStr(TruncateReason(reason.s))
                    ELSE IF reason.t = "absent" THEN JNull ELSE reason
         IN IF TriggerCondition(should_reply, conf)
            THEN Result("ok", TRUE, rsn)
            ELSE Result("ok", FALSE, JNull)

\* debate.py:94-106 on a non-empty response text
Interpret(response) ==
    LET pr == _parse_json_response(response)
    IN IF ParsedFalsy(pr)
       THEN LET should_reply == HeuristicAffirmative(response)
            IN Finish(should_reply,
                      IF should_reply THEN Conf(10) ELSE Conf(0),
                      IF should_reply THEN JStr(Strip(RawText(response))) ELSE JNull)
       ELSE IF pr.p.v.t # "dict" THEN Result("AttributeError", FALSE, JNull)
       ELSE LET cf == PyFloat(IF pr.p.d.confidence.t = "absent" THEN JNum(0)
                              ELSE pr.p.d.confidence)
            IN IF cf.exc = "OverflowError" THEN Result("OverflowError", FALSE, JNull)
               ELSE Finish(Truthy(pr.p.d.should_reply),
                           IF cf.exc = "ok" THEN cf ELSE Conf(0),
                           pr.p.d.reason)

\* faulty variant: a missing oracle result is not checked before it is parsed
DecideIgnoringFailure(o) ==
    LET got == call_openrouter(o)
    IN IF got.exc # "ok" THEN Result(got.exc, FALSE, JNull)
       ELSE IF got.value.kind = "none" THEN Result("TypeError", FALSE, JNull)
       ELSE IF RawText(got.value) = <<>> THEN Result("ok", FALSE, JNull)
       ELSE Interpret(got.value)

\* debate.py:90-123: what should_trigger_auto_debate does with the oracle's outcome
Decide(o) ==
    LET got == call_openrouter(o)
    IN IF got.exc # "ok" THEN Result(got.exc, FALSE, JNull)
       ELSE IF got.value.kind = "none" \/ RawText(got.value) = <<>>
       THEN Result("ok", FALSE, JNull)
       ELSE Interpret(got.value)

\* faulty variant: the length of the text is not checked
GateRejectsAnyLength(message) ==
    \/ ~debate_enabled
    \/ message.from_user = NoUser
    \/ message.from_user.is_bot

\* debate.py:55-63: the rejections of step 1
GateRejects(message) ==
    \/ ~debate_enabled
    \/ message.from_user = NoUser
    \/ message.from_user.is_bot
    \/ Len(Strip(Or(Or(message.text, message.caption), <<>>))) < AUTO_DEBATE_MIN_TEXT_LENGTH

\* faulty variant: a candidate exactly one window after the mark is still rejected
CooldownRejectsInclusive(map, chat_id, t) ==
    /\ chat_id \in DOMAIN map
    /\ map[chat_id] # 0
    /\ t - map[chat_id] <= AUTO_DEBATE_COOLDOWN

\* debate.py:65-68: the cooldown check
CooldownRejects(map, chat_id, t) ==
    /\ chat_id \in DOMAIN map
    /\ map[chat_id] # 0
    /\ t - map[chat_id] < AUTO_DEBATE_COOLDOWN

\* mark_auto_debate_reply: the map after auto_debate_last_reply[chat_id] = time.time()
mark_auto_debate_reply(map, chat_id, t) ==
    IF chat_id \in DOMAIN map THEN [map EXCEPT ![chat_id] = t] ELSE (chat_id :> t) @@ map

\* faulty variant: a trigger records its own time
MarkOnTrigger(map, chat_id, t, res) ==
    IF res.exc = "ok" /\ res.trigger THEN mark_auto_debate_reply(map, chat_id, t) ELSE map

\* debate.py:90-123: auto_debate_last_reply after the decision; no statement of
\* should_trigger_auto_debate assigns to it
cooldown_map_after_decision(map, chat_id, t, res) == map

\* the candidate messages: an accepted one in each conversation (a text, a caption),
\* and one for each rejection of step 1
DebateMessages ==
    {Message(1, "group", UserAnn, <<" ", "a", "b", "c", " ">>, None, "text", 1),
     Message(2, "group", UserBob, None, <<"p", "q">>, "photo", 2),
     Message(1, "group", UserAnn, <<" ", "a", " ">>, None, "text", 3),
     Message(1, "group", UserBot, <<"a", "b", "c">>, None, "text", 4),
     Message(1, "group", NoUser, <<"a", "b", "c">>, None, "text", 5)}

\* the oracle's structured answer {"should_reply": .., "confidence": .., "reason": ..}
Answer(sr, cf, rs) == Content(JsonReply(JObject(sr, cf, rs)))

ShouldReplyValues == {JBool(TRUE), JBool(FALSE), JAbsent, JStr(<<"n", "o">>)}

ConfidenceValues ==
    {JAbsent, JNull, JNum(4), JNum(6), JNum(9), JStr(<<"0", ".", "9">>),
     JStr(<<"h", "i">>), JBigNum, JNaN, JList(1)}

ReasonValues ==
    {JAbsent, JNull, JStr(<<>>), JStr(<<"a", "b">>), JStr(<<" ", "a">>),
     JStr(<<"a", "b", "c">>), JStr(<<"a", "b", "c", "d">>),
     JStr(<<"a", " ", " ", "b", "c">>), JStr(<<" ", "a", "b", "c", " ">>),
     JStr(<<" ", " ">>), JNum(5), JNum(0), JList(1)}

FailureOutcomes ==
    {NoKey, NetError, Status(401, "nochoices"), Status(500, "notjson"),
     Status(503, "choice"), Body("notjson"), Body("nochoices"),
     Body("emptychoices"), ContentNull, Content(Prose(<<>>)), Content(Prose(<<" ">>))}

RaisingOutcomes == {Body("nondict"), Body("badchoice"), ContentNonStr}

ProseOutcomes ==
    {Content(Prose(<<"Y", "e", "s">>)), Content(Prose(<<"n", "o">>)),
     Content(Prose(<<" ", "T", "R", "U", "E", "!">>)),
     Content(Prose(<<"a", " ", " ", "y", "e", "s">>))}

ScalarOutcomes ==
    {Content(JsonReply(JScalar(v))) :
        v \in {JBool(TRUE), JBool(FALSE), JNull, JNum(0), JNum(5), JStr(<<>>),
               JStr(<<"a", "b">>), JList(0), JList(1), JDict(0)}}

ObjectOutcomes ==
    {Answer(sr, cf, JStr(<<"a", "b">>)) : sr \in ShouldReplyValues, cf \in ConfidenceValues}
    \cup {Answer(JBool(TRUE), JNum(9), rs) : rs \in ReasonValues}
    \cup {Answer(JBool(FALSE), JNum(9), JStr(<<"a", "b", "c", "d">>))}

\* every kind of outcome, for the claims about the decision
ContentMenu ==
    FailureOutcomes \cup RaisingOutcomes \cup ProseOutcomes \cup ScalarOutcomes
        \cup ObjectOutcomes

\* the outcomes of the timing scenarios: a confident yes, an unsure yes, a failure
TimingMenu ==
    {Answer(JBool(TRUE), JNum(9), JStr(<<"a", "b">>)),
     Answer(JBool(TRUE), JNum(4), JStr(<<"a", "b">>)),
     NetError, NoKey}

Menu == IF debate_menu = "timing" THEN TimingMenu ELSE ContentMenu

IdleFlow ==
    [pc |-> "idle", chat |-> 0, start |-> 0, prior |-> 0, rejected |-> "no", calls |-> 0,
     oracle |-> NoKey, res |-> Result("ok", FALSE, JNull), at |-> 0,
     msg |-> Message(0, "group", NoUser, None, None, "text", 0)]

\* a call is serialised with the caller's synchronous mark that follows a trigger
NoMarkPending == \A g \in Flows : flow[g].pc # "triggered"

\* should_trigger_auto_debate up to its suspension at the oracle call (debate.py:55-90)
should_trigger_begin(f, message) ==
    /\ flow[f].pc = "idle"
    /\ NoMarkPending
    /\ LET base == [flow[f] EXCEPT !.chat = message.chat, !.start = now,
                                   !.prior = last_trigger[message.chat],
                                   !.msg = message]
       IN flow' = [flow EXCEPT ![f] =
             IF GateRejects(message)
             THEN [base EXCEPT !.pc = "done", !.rejected = "gate"]
             ELSE IF CooldownRejects(auto_debate_last_reply, message.chat, now)
             THEN [base EXCEPT !.pc = "done", !.rejected = "cooldown"]
             ELSE [base EXCEPT !.pc = "oracle", !.calls = 1]]
    /\ UNCHANGED <<debate_enabled, debate_menu, now, auto_debate_last_reply, last_trigger>>

\* the oracle call completes and should_trigger_auto_debate runs to its return
\* (debate.py:90-123)
should_trigger_resume(f, o) ==
    /\ flow[f].pc = "oracle"
    /\ NoMarkPending
    /\ LET res == Decide(o)
           pc == IF res.exc # "ok" THEN "raised"
                 ELSE IF res.trigger THEN "triggered" ELSE "done"
       IN /\ flow' = [flow EXCEPT ![f] =
                 [@ EXCEPT !.pc = pc, !.oracle = o, !.res = res,
                           !.at = IF pc = "triggered" THEN now ELSE 0]]
          /\ last_trigger' = IF pc = "triggered"
                             THEN [last_trigger EXCEPT ![flow[f].chat] = now]
                             ELSE last_trigger
          /\ auto_debate_last_reply' =
                 cooldown_map_after_decision(auto_debate_last_reply, flow[f].chat, now,
                                             res)
    /\ UNCHANGED <<debate_enabled, debate_menu, now>>

\* the caller, after a trigger, invokes mark_auto_debate_reply
caller_marks(f) ==
    /\ flow[f].pc = "triggered"
    /\ auto_debate_last_reply' =
           mark_auto_debate_reply(auto_debate_last_reply, flow[f].chat, now)
    /\ flow' = [flow EXCEPT ![f] = [@ EXCEPT !.pc = "done"]]
    /\ UNCHANGED <<debate_enabled, debate_menu, now, last_trigger>>

\* time passes
Tick ==
    /\ now < MaxTime
    /\ NoMarkPending
    /\ now' = now + 1
    /\ UNCHANGED <<debate_enabled, debate_menu, auto_debate_last_reply, last_trigger, flow>>

DebateInit ==
    /\ debate_enabled \in BOOLEAN
    /\ now = 1
    /\ auto_debate_last_reply = <<>>
    /\ last_trigger = [c \in Chats |-> 0]
    /\ flow = [f \in Flows |-> IdleFlow]

\* what the debate steps leave alone
DebateFrame ==
    /\ UNCHANGED histVars /\ UNCHANGED storeVars
    /\ UNCHANGED <<openrouter_api_key, task>>
    /\ UNCHANGED otherVars

\* the outcomes the oracle call can have under the configured credential
Possible(menu) == {o \in menu : o.key = openrouter_api_key}

BeginStep == \E f \in Flows, m \in DebateMessages : should_trigger_begin(f, m) /\ DebateFrame

ResumeStep == \E f \in Flows, o \in Possible(Menu) : should_trigger_resume(f, o) /\ DebateFrame

MarkStep == \E f \in Flows : caller_marks(f) /\ DebateFrame

TickStep == Tick /\ DebateFrame

\* the decision alone: time stands still
DecisionNext == BeginStep \/ ResumeStep \/ MarkStep

\* decisions in time
DebateNext == BeginStep \/ ResumeStep \/ MarkStep \/ TickStep

(***************************************************************************)
(* memory.py: Fact Extraction Pipeline                                     *)
(***************************************************************************)
MAX_MEMORY_FACTS == 2

Tasks == {"t1", "t2"}

\* the fixed words of the literals in memory.py, each standing for its text
UnknownName == <<"Unknown">>
ThisUser == <<"this user">>
BringsUp == <<" usually brings up '">>
WhenTalkingTo == <<"' when talking to ">>

\* a target dict; user_id 0 is a missing or null user_id
Target(user_id, name, username) == [user_id |-> user_id, name |-> name, username |-> username]

get_display_name(user) ==
    IF user = NoUser THEN UnknownName
    ELSE IF user.full_name # <<>> THEN user.full_name
    ELSE IF user.username # None /\ user.username # <<>> THEN <<"@">> \o user.username
    ELSE <<"I", "D">> \o IdStr(user.id)

summarize_message_text(message) ==
    LET text == Strip(Or(Or(message.text, message.caption), <<>>))
    IN IF text # <<>> THEN Take(text, CHAT_MEMORY_MESSAGE_CHAR_LIMIT)
       ELSE ContentTypeTag(message)

\* faulty variant: a message always counts as having text
HasTextOrCaptionAlways(message) == TRUE

\* message.text or message.caption is truthy
HasTextOrCaption(message) == Or(Or(message.text, message.caption), <<>>) # <<>>

\* isinstance(x, int): bool is a subclass of int
IsInt(v) == v.t \in {"int", "bool"}
IntOf(v) == IF v.t = "bool" THEN (IF v.b THEN 1 ELSE 0) ELSE v.n

\* memory.py:174-176: the stripped non-blank strings among the first MAX_MEMORY_FACTS
\* items
RECURSIVE KeepFacts(_)
KeepFacts(items) ==
    IF items = <<>> THEN <<>>
    ELSE LET fact == Head(items)
         IN (IF fact.t = "str" /\ Strip(fact.s) # <<>> THEN <<Strip(fact.s)>> ELSE <<>>)
            \o KeepFacts(Tail(items))

\* a value "x or []" can be sliced and iterated like a list: a list, or a string (its
\* items are then its characters)
Sliceable(f) == f.items = <<>> \/ f.t \in {"list", "str", "absent", "null"}

\* "for entry in x or []" works on a list, a string and a dict (its keys)
Iterable(f) == f.items = <<>> \/ f.t \in {"list", "str", "dict", "absent", "null"}

\* user_facts.setdefault(uid, []).append(note) on an insertion-ordered dict
GroupAdd(groups, uid, note) ==
    IF \E i \in 1..Len(groups) : groups[i].uid = uid
    THEN [i \in 1..Len(groups) |->
             IF groups[i].uid = uid
             THEN [groups[i] EXCEPT !.notes = Append(@, note)]
             ELSE groups[i]]
    ELSE Append(groups, [uid |-> uid, notes |-> <<note>>])

\* memory.py:178-184
RECURSIVE GroupEntries(_, _)
GroupEntries(entries, groups) ==
    IF entries = <<>> THEN groups
    ELSE LET e == Head(entries)
             ok == /\ e.t = "dict"
                   /\ IsInt(e.user_id)
                   /\ e.note.t = "str"
                   /\ Strip(e.note.s) # <<>>
         IN GroupEntries(Tail(entries),
                         IF ok THEN GroupAdd(groups, IntOf(e.user_id), Strip(e.note.s))
                         ELSE groups)

Extracted(exc, chat_facts, user_facts) ==
    [exc |-> exc, chat_facts |-> chat_facts, user_facts |-> user_facts]

NoFacts == Extracted("ok", <<>>, <<>>)

\* memory.py:172-185 on the parsed response
ExtractParsed(p) ==
    IF p.v.t = "dict" /\ ~Sliceable(p.m.chat_facts) THEN Extracted("TypeError", <<>>, <<>>)
    ELSE IF p.v.t # "dict" THEN Extracted("AttributeError", <<>>, <<>>)
    ELSE IF ~Iterable(p.m.user_facts) THEN Extracted("TypeError", <<>>, <<>>)
    ELSE Extracted("ok",
                   KeepFacts(Take(p.m.chat_facts.items, MAX_MEMORY_FACTS)),
                   IF p.m.user_facts.t = "list"
                   THEN GroupEntries(p.m.user_facts.items, <<>>)
                   ELSE <<>>)

\* memory.py:157-185: extract_memory_facts from the oracle's outcome on
ExtractFromOutcome(o) ==
    LET got == call_openrouter(o)
    IN IF got.exc # "ok" THEN Extracted(got.exc, <<>>, <<>>)
       ELSE IF got.value.kind = "none" \/ RawText(got.value) = <<>> THEN NoFacts
       ELSE IF got.value.kind # "json" THEN NoFacts
       ELSE ExtractParsed(got.value.json)

\* the store as one value, to thread the writes of one step through
Db(cm, cs, um, us, log, ulog, peak) ==
    [cm |-> cm, cs |-> cs, um |-> um, us |-> us, log |-> log, ulog |-> ulog, peak |-> peak]

CurrentDb ==
    Db(chat_memories, chat_mem_seq, user_memories, user_mem_seq, chat_mem_log, user_mem_log,
       chat_mem_peak)

DbAddChat(db, chat_id, message_id, author_id, author_name, summary) ==
    [db EXCEPT
        !.cm = ChatMemoriesAfterAdd(db.cm, db.cs, chat_id, message_id, author_id,
                                    author_name, summary),
        !.cs = ChatSeqAfterAdd(db.cs, summary),
        !.log = [db.log EXCEPT ![chat_id] = Append(@, summary)],
        !.peak = Max(db.peak, CommittedRows(db.cm, db.cs, chat_id, message_id, author_id,
                                            author_name, summary))]

DbAddUser(db, chat_id, subject_user_id, source_user_id, note) ==
    [db EXCEPT
        !.um = UserMemoriesAfterAdd(db.um, db.us, chat_id, subject_user_id,
                                    source_user_id, note),
        !.us = UserSeqAfterAdd(db.us, note),
        !.ulog = UserLogAfterAdd(db.ulog, chat_id, subject_user_id, source_user_id, note)]

\* memory.py:197-198
RECURSIVE StoreChatFacts(_, _, _)
StoreChatFacts(db, message, facts) ==
    IF facts = <<>> THEN db
    ELSE StoreChatFacts(
             DbAddChat(db, message.chat, 0, message.from_user.id,
                       get_display_name(message.from_user), Head(facts)),
             message, Tail(facts))

\* faulty variant: every note of a subject is written
RECURSIVE UserFactWritesUncapped(_)
UserFactWritesUncapped(groups) ==
    IF groups = <<>> THEN <<>>
    ELSE LET g == Head(groups)
         IN [i \in 1..Len(g.notes) |-> [subject |-> g.uid, note |-> g.notes[i]]]
            \o UserFactWritesUncapped(Tail(groups))

\* the (subject, note) pairs memory.py:200-202 writes, in order
RECURSIVE UserFactWrites(_)
UserFactWrites(groups) ==
    IF groups = <<>> THEN <<>>
    ELSE LET g == Head(groups)
             notes == Take(g.notes, MAX_MEMORY_FACTS)
         IN [i \in 1..Len(notes) |-> [subject |-> g.uid, note |-> notes[i]]]
            \o UserFactWrites(Tail(groups))

\* memory.py:209-212
FallbackNote(message, target) ==
    LET target_name ==
            IF target.name # None /\ target.name # <<>> THEN target.name
            ELSE IF target.username # None /\ target.username # <<>>
                 THEN <<"@">> \o target.username
                 ELSE ThisUser
    IN get_display_name(message.from_user) \o BringsUp \o summarize_message_text(message)
           \o WhenTalkingTo \o target_name

\* the (subject, note) pairs the loop of memory.py:205-213 writes, in order
RECURSIVE FallbackLoop(_, _)
FallbackLoop(message, targets) ==
    IF targets = <<>> THEN <<>>
    ELSE (IF Head(targets).user_id = 0 THEN <<>>
          ELSE <<[subject |-> Head(targets).user_id,
                  note |-> FallbackNote(message, Head(targets))]>>)
         \o FallbackLoop(message, Tail(targets))

\* faulty variant: the fallback runs whatever was extracted
FallbackAppliesIgnoringFacts(message, targets, facts) ==
    /\ targets # <<>>
    /\ HasTextOrCaption(message)

\* memory.py:204: whether the fallback runs
FallbackApplies(message, targets, facts) ==
    /\ facts.chat_facts = <<>>
    /\ facts.user_facts = <<>>
    /\ targets # <<>>
    /\ HasTextOrCaption(message)

FallbackWrites(message, targets, facts) ==
    IF FallbackApplies(message, targets, facts) THEN FallbackLoop(message, targets) ELSE <<>>

RECURSIVE StoreUserNotes(_, _, _)
StoreUserNotes(db, message, writes) ==
    IF writes = <<>> THEN db
    ELSE StoreUserNotes(
             DbAddUser(db, message.chat, Head(writes).subject, message.from_user.id,
                       Head(writes).note),
             message, Tail(writes))

\* memory.py:197-213: the store after the writes that follow the extraction
DbAfterFacts(db, message, targets, facts) ==
    StoreUserNotes(
        StoreUserNotes(StoreChatFacts(db, message, facts.chat_facts), message,
                       UserFactWrites(facts.user_facts)),
        message, FallbackWrites(message, targets, facts))

IdleTask ==
    [pc |-> "idle", msg |-> Message(0, "group", NoUser, None, None, "text", 0),
     targets |-> <<>>, calls |-> 0, oracle |-> NoKey, exc |-> "ok", facts |-> NoFacts,
     fallback |-> <<>>]

SetDb(db) ==
    /\ chat_memories' = db.cm
    /\ chat_mem_seq' = db.cs
    /\ user_memories' = db.um
    /\ user_mem_seq' = db.us
    /\ chat_mem_log' = db.log
    /\ user_mem_log' = db.ulog
    /\ chat_mem_peak' = db.peak

\* faulty variant: the raw summary is not written
RawWriteSkipped(db, message) == db

\* memory.py:191-194: the chat memory of the raw message summary
RawWrite(db, message) ==
    DbAddChat(db, message.chat, message.message_id, message.from_user.id,
              get_display_name(message.from_user), summarize_message_text(message))

\* store_structured_memories up to the oracle call inside extract_memory_facts
\* (memory.py:188-196, 139-157); without text or credential there is no oracle call
\* and the function runs to its end
store_structured_memories_start(t, message, targets) ==
    /\ LET base == [task[t] EXCEPT !.msg = message, !.targets = targets]
           db1 == RawWrite(CurrentDb, message)
       IN IF message.chat_type \notin GroupTypes
          THEN /\ task' = [task EXCEPT ![t] = [base EXCEPT !.pc = "done"]]
               /\ UNCHANGED <<chat_memories, chat_mem_seq, user_memories, user_mem_seq,
                              chat_mem_log, user_mem_log, chat_mem_peak>>
          ELSE IF ~HasTextOrCaption(message) \/ ~openrouter_api_key
          THEN /\ task' = [task EXCEPT ![t] =
                     [base EXCEPT !.pc = "done",
                                  !.fallback = FallbackWrites(message, targets, NoFacts)]]
               /\ SetDb(DbAfterFacts(db1, message, targets, NoFacts))
          ELSE /\ task' = [task EXCEPT ![t] = [base EXCEPT !.pc = "extract", !.calls = 1]]
               /\ SetDb(db1)
    /\ UNCHANGED store_pc

\* a direct call of store_structured_memories
store_structured_memories_begin(t, message, targets) ==
    /\ task[t].pc = "idle"
    /\ store_structured_memories_start(t, message, targets)

\* the oracle call completes; extract_memory_facts and store_structured_memories run
\* to their end (memory.py:165-185, 197-213)
store_structured_memories_resume(t, o) ==
    /\ task[t].pc = "extract"
    /\ LET facts == ExtractFromOutcome(o)
           base == [task[t] EXCEPT !.oracle = o, !.facts = facts, !.exc = facts.exc]
       IN IF facts.exc # "ok"
          THEN /\ task' = [task EXCEPT ![t] = [base EXCEPT !.pc = "raised"]]
               /\ UNCHANGED <<chat_memories, chat_mem_seq, user_memories, user_mem_seq,
                              chat_mem_log, user_mem_log, chat_mem_peak>>
          ELSE /\ task' = [task EXCEPT ![t] =
                     [base EXCEPT !.pc = "done",
                                  !.fallback = FallbackWrites(task[t].msg, task[t].targets,
                                                              facts)]]
               /\ SetDb(DbAfterFacts(CurrentDb, task[t].msg, task[t].targets, facts))
    /\ UNCHANGED store_pc

\* the messages and target lists handed to the pipeline
CaptureMessages ==
    {Message(1, "group", UserAnn, <<"h", "e", "l", "l", "o">>, None, "text", 1),
     Message(1, "supergroup", UserBob, None, <<"p">>, "photo", 2),
     Message(1, "group", UserAnon, <<" ">>, None, "text", 3),
     Message(1, "group", NoUser, None, None, "sticker", 4),
     Message(2, "private", UserAnn, <<"h", "e", "l", "l", "o">>, None, "text", 5),
     Message(2, "group", UserBob, <<"y", "o">>, None, "text", 6)}

TargetBob == Target(2, <<"B", "o">>, None)
TargetCat == Target(3, None, <<"c">>)
TargetNameless == Target(4, None, None)
TargetNoId == Target(0, <<"Z">>, None)

TargetLists ==
    {<<>>, <<TargetBob>>, <<TargetBob, TargetCat>>, <<TargetNoId>>,
     <<TargetNoId, TargetNameless>>}

Fact(str) == JStr(str)
Note(user_id, str) == Entry("dict", JInt(user_id), JStr(str))
FactList(items) == Facts("list", items)
Absent == Facts("absent", <<>>)

MemAnswer(cf, uf) == Content(JsonReply(MemObject(cf, uf)))

\* the oracle outcomes of the pipeline: a failure, text that is not JSON, the empty
\* object, objects with facts, with unusable items, with too many facts, and malformed
\* ones
CaptureMenu ==
    {NoKey, NetError,
     Content(Prose(<<"o", "k">>)),
     MemAnswer(Absent, Absent),
     MemAnswer(FactList(<<Fact(<<"f">>)>>), Absent),
     MemAnswer(Absent, FactList(<<Note(3, <<"n">>)>>)),
     MemAnswer(FactList(<<Fact(<<" ">>), JInt(5)>>),
               FactList(<<Note(2, <<" ">>), Entry("dict", JStr(<<"2">>), JStr(<<"n">>)),
                          Entry("str", JAbsent, JAbsent)>>)),
     MemAnswer(FactList(<<Fact(<<"f">>), Fact(<<"g">>), Fact(<<"h">>)>>),
               FactList(<<Note(2, <<"n">>), Note(3, <<"m">>), Note(2, <<"o">>),
                          Note(2, <<"p">>)>>)),
     MemAnswer(Facts("int", <<JInt(5)>>), Absent),
     Content(JsonReply(JScalar(JList(0))))}

CaptureInit ==
    /\ openrouter_api_key \in BOOLEAN
    /\ task = [t \in Tasks |-> IdleTask]

CaptureFrame ==
    UNCHANGED histVars /\ UNCHANGED debateVars /\ UNCHANGED openrouter_api_key

\* a direct call of the pipeline leaves the dispatching callers alone
CaptureDirectFrame == CaptureFrame /\ UNCHANGED otherVars

CaptureBeginStep ==
    \E t \in Tasks, m \in CaptureMessages, ts \in TargetLists :
        store_structured_memories_begin(t, m, ts) /\ CaptureDirectFrame

CaptureResumeStep ==
    \E t \in Tasks, o \in Possible(CaptureMenu) :
        store_structured_memories_resume(t, o) /\ CaptureDirectFrame

CaptureNext == CaptureBeginStep \/ CaptureResumeStep

\* one run of the pipeline on its own
PipelineBeginStep ==
    \E m \in CaptureMessages, ts \in TargetLists :
        store_structured_memories_begin("t1", m, ts) /\ CaptureDirectFrame

PipelineResumeStep ==
    \E o \in Possible(CaptureMenu) :
        store_structured_memories_resume("t1", o) /\ CaptureDirectFrame

PipelineNext == PipelineBeginStep \/ PipelineResumeStep

(***************************************************************************)
(* memory.py: dispatch of the pipeline (schedule_memory_capture).  The      *)
(* caller k dispatches task k.                                              *)
(***************************************************************************)
\* the classes "except Exception" catches, among those the pipeline can raise:
\* AttributeError, TypeError and OverflowError from the handling of the oracle's
\* answer, sqlite3.OperationalError from the store
ExceptionSubclasses == {"AttributeError", "TypeError", "OverflowError", "OperationalError"}

\* faulty variant: only the oracle's data errors are caught
CaughtByRunnerDataOnly(exc) == exc \in {"TypeError", "ValueError"}

\* memory.py:225: except Exception
CaughtByRunner(exc) == exc \in ExceptionSubclasses

\* s.startswith("/")
StartsWithSlash(s) == s # <<>> /\ Head(s) = "/"

\* faulty variant: the sender is not looked at
ShouldCaptureFromAnyone(message, rnd) ==
    LET text == Strip(Or(Or(message.text, message.caption), <<>>))
    IN IF text = <<>> \/ StartsWithSlash(text) THEN FALSE ELSE rnd

\* memory.py:51-57; rnd is random.random() <= MEMORY_CAPTURE_PROBABILITY
should_capture_memory(message, rnd) ==
    LET text == Strip(Or(Or(message.text, message.caption), <<>>))
    IN IF text = <<>> \/ StartsWithSlash(text) THEN FALSE
       ELSE IF message.from_user # NoUser /\ message.from_user.is_bot THEN FALSE
       ELSE rnd

\* faulty variant: the pipeline is run up to its oracle call before the return
CreateTaskAndRun(message, targets) ==
    [IdleTask EXCEPT !.pc = "extract", !.msg = message, !.targets = targets, !.calls = 1]

\* memory.py:220-228: asyncio.create_task(_runner()) on the cloned targets; the task
\* is created and has not run
create_task(message, targets) ==
    [IdleTask EXCEPT !.pc = "pending", !.msg = message, !.targets = targets]

IdleCaller ==
    [pc |-> "idle", dispatched |-> FALSE, exc |-> "ok", runner |-> "none",
     logged |-> "ok", at_return |-> [pc |-> "idle", calls |-> 0, writes |-> 0],
     msg |-> IdleTask.msg]

\* schedule_memory_capture, from the call to the return to its caller
schedule_memory_capture(k, message, targets, rnd) ==
    /\ sched[k].pc = "idle"
    /\ task[k].pc = "idle"
    /\ UNCHANGED storeVars
    /\ IF should_capture_memory(message, rnd)
       THEN /\ task' = [task EXCEPT ![k] = create_task(message, targets)]
            /\ sched' = [sched EXCEPT ![k] =
                   [@ EXCEPT !.pc = "returned", !.dispatched = TRUE, !.msg = message,
                             !.at_return =
                                 [pc |-> task'[k].pc, calls |-> task'[k].calls,
                                  writes |-> (chat_mem_seq' + user_mem_seq')
                                             - (chat_mem_seq + user_mem_seq)]]]
       ELSE /\ sched' = [sched EXCEPT ![k] = [@ EXCEPT !.pc = "returned", !.msg = message]]
            /\ UNCHANGED task

\* the flow that called schedule_memory_capture goes on with its work
caller_proceeds(k) ==
    /\ sched[k].pc = "returned"
    /\ sched' = [sched EXCEPT ![k] = [@ EXCEPT !.pc = "proceeded"]]
    /\ UNCHANGED <<task, storeVars>>

\* memory.py:223-226: what _runner does with the way store_structured_memories ended
RunnerAfter(s, tk) ==
    IF tk.pc = "raised"
    THEN [s EXCEPT !.runner = IF CaughtByRunner(tk.exc) THEN "caught" ELSE "escaped",
                   !.logged = tk.exc]
    ELSE IF tk.pc = "done" THEN [s EXCEPT !.runner = "finished"]
    ELSE s

\* the task starts: _runner calls store_structured_memories, which runs up to the
\* oracle call; fails: the store raises sqlite3.OperationalError on the first write
\* (memory.py:194)
runner_begin(t, fails) ==
    /\ task[t].pc = "pending"
    /\ IF fails /\ task[t].msg.chat_type \in GroupTypes
       THEN /\ task' = [task EXCEPT ![t] =
                   [@ EXCEPT !.pc = "raised", !.exc = "OperationalError"]]
            /\ UNCHANGED storeVars
       ELSE store_structured_memories_start(t, task[t].msg, task[t].targets)
    /\ sched' = [sched EXCEPT ![t] = RunnerAfter(@, task'[t])]

\* the oracle call of a dispatched task completes and the task runs to its end
runner_resume(t, o) ==
    /\ sched[t].dispatched
    /\ store_structured_memories_resume(t, o)
    /\ sched' = [sched EXCEPT ![t] = RunnerAfter(@, task'[t])]

\* the messages handed to schedule_memory_capture
ScheduleMessages ==
    {Message(1, "group", UserAnn, <<"h", "e", "l", "l", "o">>, None, "text", 1),
     Message(1, "group", UserAnn, <<" ", "/", "g", "o">>, None, "text", 6),
     Message(1, "group", UserBot, <<"h", "i">>, None, "text", 7),
     Message(1, "group", UserAnon, <<" ">>, None, "text", 3),
     Message(2, "private", UserBob, None, <<"p">>, "photo", 8)}

ScheduleTargetLists == {<<>>, <<TargetBob>>}

\* the oracle outcomes of a dispatched task: failures, answers with and without
\* facts, and answers that make extract_memory_facts raise
ScheduleMenu ==
    {NoKey, NetError, Body("nondict"),
     MemAnswer(Absent, Absent),
     MemAnswer(FactList(<<Fact(<<"f">>)>>), Absent),
     MemAnswer(Facts("int", <<JInt(5)>>), Absent),
     Content(JsonReply(JScalar(JList(0))))}

SchedInit == sched = [k \in Tasks |-> IdleCaller]

ScheduleStep ==
    \E k \in Tasks, m \in ScheduleMessages, ts \in ScheduleTargetLists, rnd \in BOOLEAN :
        schedule_memory_capture(k, m, ts, rnd) /\ CaptureFrame

ProceedStep == \E k \in Tasks : caller_proceeds(k) /\ CaptureFrame

RunnerBeginStep == \E t \in Tasks, fails \in BOOLEAN : runner_begin(t, fails) /\ CaptureFrame

RunnerResumeStep ==
    \E t \in Tasks, o \in Possible(ScheduleMenu) : runner_resume(t, o) /\ CaptureFrame

ScheduleNext ==
    /\ ScheduleStep \/ ProceedStep \/ RunnerBeginStep \/ RunnerResumeStep
    /\ UNCHANGED variedVars /\ UNCHANGED contextVars /\ UNCHANGED moduleVars

(***************************************************************************)
(* memory.py: Varied Sampler (choose_varied_entries).  Entries are         *)
(* newest-first.                                                           *)
(***************************************************************************)
MEMORY_MIN_RECENT_SHARE == 2

MaxEntries == 5
MaxLimit == 4

NoteTexts == {"a", "b", "c"}

\* the lists handed to the sampler
EntryLists == UNION {[1..n -> NoteTexts] : n \in 0..MaxEntries}

\* s[n:] of Python for n >= 0
Drop(s, n) == SubSeq(s, Min(n, Len(s)) + 1, Len(s))

\* faulty variant: the positions are drawn with replacement
SamplePositionsWithReplacement(n, k) == [1..k -> 1..n]

\* the positions random.sample(population, k) can draw from a population of n:
\* k distinct positions, in every order
SamplePositions(n, k) ==
    {q \in [1..k -> 1..n] : \A i \in 1..k, j \in 1..k : i # j => q[i] # q[j]}

\* faulty variant: the recency block is half the limit, with no floor
RecentKeepHalfOnly(entries, limit) == Take(entries, Min(limit \div 2, Len(entries)))

\* memory.py:113
RecentKeep(entries, limit) ==
    Take(entries, Max(MEMORY_MIN_RECENT_SHARE, Min(limit \div 2, Len(entries))))

\* the positions 1..n in order
Positions(n) == [i \in 1..n |-> i]

\* one outcome of the call: the list returned, the input positions its items
\* come from, and the caller's list when the call returns
VariedOutcome(result, picked, entries) ==
    [result |-> result, picked |-> picked, entries |-> entries]

\* memory.py:118, recent_keep += sampled: the list object recent_keep grows in
\* place; the caller's list grows with it only if it is that same object
ExtendInPlace(entries, same_object, sampled) ==
    IF same_object THEN entries \o sampled ELSE entries

\* memory.py:113: a slice is a new list object, never the sliced list itself
SliceIsSameObject == FALSE

\* faulty variant: the list is always cut to the limit
ChooseFirstLimit(entries, limit) ==
    {VariedOutcome(Take(entries, Max(limit, 0)),
             Positions(Min(Max(limit, 0), Len(entries))), entries)}

\* memory.py:110-119: the outcomes of the call, one per random sample
choose_varied_entries(entries, limit) ==
    IF limit <= 0 \/ Len(entries) <= limit
    THEN {VariedOutcome(entries, Positions(Len(entries)), entries)}
    ELSE LET recent_keep == RecentKeep(entries, limit)
             remaining == Drop(entries, Len(recent_keep))
             to_pick == limit - Len(recent_keep)
             k == Min(to_pick, Len(remaining))
         IN IF remaining # <<>> /\ to_pick > 0
            THEN {VariedOutcome(recent_keep \o [i \in 1..k |-> remaining[pos[i]]],
                          Positions(Len(recent_keep))
                              \o [i \in 1..k |-> Len(recent_keep) + pos[i]],
                          ExtendInPlace(entries, SliceIsSameObject,
                                        [i \in 1..k |-> remaining[pos[i]]])) :
                     pos \in SamplePositions(Len(remaining), k)}
            ELSE {VariedOutcome(recent_keep, Positions(Len(recent_keep)), entries)}

IdleVaried ==
    [pc |-> "idle", entries |-> <<>>, limit |-> 0, result |-> <<>>,
     picked |-> <<>>, after |-> <<>>]

VariedInit == varied = IdleVaried

CallChooseVaried ==
    /\ varied.pc = "idle"
    /\ \E entries \in EntryLists, limit \in (-1)..MaxLimit :
           \E o \in choose_varied_entries(entries, limit) :
               varied' = [pc |-> "done", entries |-> entries, limit |-> limit,
                          result |-> o.result, picked |-> o.picked,
                          after |-> o.entries]
    /\ UNCHANGED histVars /\ UNCHANGED storeVars /\ UNCHANGED debateVars
    /\ UNCHANGED <<openrouter_api_key, task>>
    /\ UNCHANGED schedVars /\ UNCHANGED contextVars /\ UNCHANGED moduleVars

VariedNext == CallChooseVaried

(***************************************************************************)
(* debate.py: the dialogue context of the oracle request.                  *)
(***************************************************************************)
MaxHistoryLimit == 3

\* debate.py:44-46: history[-AUTO_DEBATE_HISTORY_LIMIT:]
_build_dialogue_context(chat_id) ==
    LastN(get_chat_history_entries(chat_id), AUTO_DEBATE_HISTORY_LIMIT)

NoDialogue == [built |-> FALSE, chat |-> 0, snapshot |-> <<>>, entries |-> <<>>]

ContextInit ==
    /\ AUTO_DEBATE_HISTORY_LIMIT \in 0..MaxHistoryLimit
    /\ dialogue = NoDialogue

\* should_trigger_auto_debate builds the context of a candidate of conversation c
\* (debate.py:70)
BuildContext ==
    /\ \E c \in Chats :
           dialogue' = [built |-> TRUE, chat |-> c,
                        snapshot |-> get_chat_history_entries(c),
                        entries |-> _build_dialogue_context(c)]
    /\ UNCHANGED histVars /\ UNCHANGED storeVars /\ UNCHANGED debateVars
    /\ UNCHANGED <<openrouter_api_key, task>>
    /\ UNCHANGED schedVars /\ UNCHANGED variedVars /\ UNCHANGED moduleVars
    /\ UNCHANGED AUTO_DEBATE_HISTORY_LIMIT

ContextNext == HistNext \/ BuildContext

(***************************************************************************)
(* database.py: support-message cooldown (can_send_support_message).  Time *)
(* is int(time.time()), the clock of the debate component.                 *)
(***************************************************************************)
SupportUsers == {1, 2}

\* the cooldown_seconds arguments
SupportCooldowns == {2, 3}

\* what the steps of the module components leave alone
ModuleFrame ==
    /\ UNCHANGED histVars /\ UNCHANGED storeVars /\ UNCHANGED debateVars
    /\ UNCHANGED <<openrouter_api_key, task>>
    /\ UNCHANGED schedVars /\ UNCHANGED variedVars /\ UNCHANGED contextVars

\* faulty variant: a call exactly cooldown_seconds after the last one is denied
SupportDeniesInclusive(time_passed, cooldown_seconds) == time_passed <= cooldown_seconds

\* database.py:646
SupportDenies(time_passed, cooldown_seconds) == time_passed < cooldown_seconds

\* INSERT OR REPLACE INTO last_support_time on the primary key user_id
ReplaceSupportTime(table, user_id, current_time) ==
    [u \in DOMAIN table \cup {user_id} |-> IF u = user_id THEN current_time ELSE table[u]]

SupportResult(user_id, cooldown_seconds, at, allowed, wait) ==
    [called |-> TRUE, user_id |-> user_id, cooldown_seconds |-> cooldown_seconds,
     at |-> at, allowed |-> allowed, wait |-> wait]

NoSupportCall ==
    [called |-> FALSE, user_id |-> 0, cooldown_seconds |-> 0, at |-> 0,
     allowed |-> FALSE, wait |-> 0]

\* database.py:631-656
can_send_support_message(user_id, cooldown_seconds) ==
    LET current_time == now
        result == user_id \in DOMAIN last_support_time
    IN IF result /\ SupportDenies(current_time - last_support_time[user_id], cooldown_seconds)
       THEN /\ support_call' =
                   SupportResult(user_id, cooldown_seconds, current_time, FALSE,
                                 cooldown_seconds - (current_time - last_support_time[user_id]))
            /\ UNCHANGED <<last_support_time, support_allowed_at>>
       ELSE /\ last_support_time' = ReplaceSupportTime(last_support_time, user_id, current_time)
            /\ support_call' = SupportResult(user_id, cooldown_seconds, current_time, TRUE, 0)
            /\ support_allowed_at' =
                   [u \in DOMAIN support_allowed_at \cup {user_id} |->
                       IF u = user_id THEN current_time ELSE support_allowed_at[u]]

SupportInit ==
    /\ last_support_time = <<>>
    /\ support_call = NoSupportCall
    /\ support_allowed_at = <<>>

CallCanSend ==
    /\ \E u \in SupportUsers, cd \in SupportCooldowns : can_send_support_message(u, cd)
    /\ ModuleFrame
    /\ UNCHANGED rulesVars /\ UNCHANGED stylesVars

SupportNext == TickStep \/ CallCanSend

(***************************************************************************)
(* rules.py: the rules-capture window of a conversation.                   *)
(***************************************************************************)
RULES_CAPTURE_TIMEOUT == 3

\* the requested_by arguments: None (the default) or a user id
Requesters == {None, <<"int", 1>>}

Without(map, chat_id) == [c \in DOMAIN map \ {chat_id} |-> map[c]]

With(map, chat_id, value) ==
    [c \in DOMAIN map \cup {chat_id} |-> IF c = chat_id THEN value ELSE map[c]]

\* faulty variant: a request of age RULES_CAPTURE_TIMEOUT has already expired
RulesExpiredAtTimeout(age) == age >= RULES_CAPTURE_TIMEOUT

\* rules.py:77
RulesExpired(age) == age > RULES_CAPTURE_TIMEOUT

RulesCall(op, chat_id, result) ==
    [op |-> op, chat_id |-> chat_id, at |-> now, result |-> result]

NoRulesCall == [op |-> "none", chat_id |-> 0, at |-> 0, result |-> FALSE]

\* rules.py:69-70
start_rules_capture(chat_id, requested_by) ==
    /\ pending_rules_requests' =
           With(pending_rules_requests, chat_id, [ts |-> now, by |-> requested_by])
    /\ rules_call' = RulesCall("start", chat_id, FALSE)
    /\ rules_started' = With(rules_started, chat_id, [ts |-> now, cancelled |-> FALSE])

\* rules.py:73-81
is_rules_capture_active(chat_id) ==
    /\ IF chat_id \notin DOMAIN pending_rules_requests
       THEN /\ rules_call' = RulesCall("check", chat_id, FALSE)
            /\ UNCHANGED pending_rules_requests
       ELSE IF RulesExpired(now - pending_rules_requests[chat_id].ts)
       THEN /\ pending_rules_requests' = Without(pending_rules_requests, chat_id)
            /\ rules_call' = RulesCall("check", chat_id, FALSE)
       ELSE /\ rules_call' = RulesCall("check", chat_id, TRUE)
            /\ UNCHANGED pending_rules_requests
    /\ UNCHANGED rules_started

\* rules.py:84-85
cancel_rules_capture(chat_id) ==
    /\ pending_rules_requests' = Without(pending_rules_requests, chat_id)
    /\ rules_call' = RulesCall("cancel", chat_id, FALSE)
    /\ rules_started' =
           IF chat_id \in DOMAIN rules_started
           THEN [rules_started EXCEPT ![chat_id].cancelled = TRUE]
           ELSE rules_started

RulesInit ==
    /\ pending_rules_requests = <<>>
    /\ rules_call = NoRulesCall
    /\ rules_started = <<>>

RulesFrame == ModuleFrame /\ UNCHANGED supportVars /\ UNCHANGED stylesVars

CallStartRulesCapture ==
    /\ \E c \in Chats, by \in Requesters : start_rules_capture(c, by)
    /\ RulesFrame

CallIsRulesCaptureActive ==
    /\ \E c \in Chats : is_rules_capture_active(c)
    /\ RulesFrame

CallCancelRulesCapture ==
    /\ \E c \in Chats : cancel_rules_capture(c)
    /\ RulesFrame

RulesNext ==
    TickStep \/ CallStartRulesCapture \/ CallIsRulesCaptureActive \/ CallCancelRulesCapture

(***************************************************************************)
(* styles.py and database.py: saved styles, their per-user cache and the   *)
(* active saved style.  An Optional[int] is None or PyInt(n); the          *)
(* created_at column is left out of the rows.                              *)
(***************************************************************************)
StyleUsers == {1, 2}

\* cap on the number of INSERTs into saved_styles
MaxStyles == 2

StyleIds == 1..MaxStyles

\* the style_key arguments: a preset key and a saved-style key
StyleKeys == {<<"f">>, <<"s">>}

StyleName == <<"n">>
StylePrompt == <<"p">>

PyInt(n) == <<"int", n>>

\* int(stored) of get_active_saved_style_id; None when it raises ValueError
ParseStyleId(stored) ==
    IF \E n \in 0..(MaxStyles + 1) : IdStr(n) = stored
    THEN PyInt(CHOOSE n \in 0..(MaxStyles + 1) : IdStr(n) = stored)
    ELSE None

\* database.py:248-283
db_get_user_setting(table, user_id, key) ==
    IF <<user_id, key>> \in DOMAIN table THEN table[<<user_id, key>>] ELSE None

db_set_user_setting(table, user_id, key, value) ==
    [k \in DOMAIN table \cup {<<user_id, key>>} |->
        IF k = <<user_id, key>> THEN value ELSE table[k]]

db_delete_user_setting(table, user_id, key) ==
    [k \in DOMAIN table \ {<<user_id, key>>} |-> table[k]]

StyleDict(r) == [id |-> r.id, name |-> r.name, prompt |-> r.prompt]

RECURSIVE OrderById(_)
OrderById(rows) ==
    IF rows = {} THEN <<>>
    ELSE LET r == CHOOSE r \in rows : \A q \in rows : r.id <= q.id
         IN <<StyleDict(r)>> \o OrderById(rows \ {r})

\* database.py:286-298: SELECT ... WHERE user_id = ? ORDER BY id
db_get_saved_styles(rows, user_id) == OrderById({r \in rows : r.user_id = user_id})

\* database.py:300-311; <<>> stands for None
db_get_saved_style(rows, user_id, style_id) ==
    OrderById({r \in rows : r.user_id = user_id /\ r.id = style_id})

\* database.py:313-323
db_add_saved_style(rows, seq, user_id, name, prompt) ==
    rows \cup {[id |-> seq + 1, user_id |-> user_id, name |-> name, prompt |-> prompt]}

\* database.py:325-335
db_delete_saved_style(rows, user_id, style_id) ==
    {r \in rows : ~(r.user_id = user_id /\ r.id = style_id)}

\* styles.py:108-109
invalidate_saved_styles_cache(cache, user_id) == Without(cache, user_id)

\* faulty variant: a delete leaves the cached list in place
KeepCacheAfterDelete(cache, user_id, deleted) == cache

\* styles.py:142-143
InvalidateAfterDelete(cache, user_id, deleted) ==
    IF deleted THEN invalidate_saved_styles_cache(cache, user_id) ELSE cache

\* styles.py:112-118: the list returned and the cache afterwards
get_saved_styles(cache, rows, user_id) ==
    IF user_id \in DOMAIN cache
    THEN [styles |-> cache[user_id], cache |-> cache]
    ELSE [styles |-> db_get_saved_styles(rows, user_id),
          cache |-> With(cache, user_id, db_get_saved_styles(rows, user_id))]

\* styles.py:121-131: the style returned (<<>> for None) and the cache afterwards
get_saved_style(cache, rows, user_id, style_id) ==
    IF style_id = None THEN [style |-> <<>>, cache |-> cache]
    ELSE LET got == get_saved_styles(cache, rows, user_id)
             hits == {i \in 1..Len(got.styles) : PyInt(got.styles[i].id) = style_id}
             style == db_get_saved_style(rows, user_id, style_id[2])
         IN IF hits # {}
            THEN [style |-> <<got.styles[CHOOSE i \in hits : \A j \in hits : i <= j]>>,
                  cache |-> got.cache]
            ELSE IF style # <<>>
            THEN [style |-> style,
                  cache |-> With(invalidate_saved_styles_cache(got.cache, user_id), user_id,
                                 db_get_saved_styles(rows, user_id))]
            ELSE [style |-> style, cache |-> got.cache]

\* styles.py:52-57: the cache and the settings table afterwards
set_active_saved_style(active, settings, user_id, style_id) ==
    [active |-> With(active, user_id, style_id),
     settings |-> IF style_id = None
                  THEN db_delete_user_setting(settings, user_id, "ai_style_saved_id")
                  ELSE db_set_user_setting(settings, user_id, "ai_style_saved_id",
                                           IdStr(style_id[2]))]

\* styles.py:60-74: the id returned and the cache afterwards
get_active_saved_style_id(active, settings, user_id) ==
    IF user_id \in DOMAIN active
    THEN [value |-> active[user_id], active |-> active]
    ELSE LET stored == db_get_user_setting(settings, user_id, "ai_style_saved_id")
             value == IF stored = None THEN None ELSE ParseStyleId(stored)
         IN [value |-> value, active |-> With(active, user_id, value)]

StylesCall(op, user_id, arg, ok, styles, value) ==
    [op |-> op, user_id |-> user_id, arg |-> arg, ok |-> ok, styles |-> styles,
     value |-> value]

NoStylesCall == StylesCall("none", 0, None, FALSE, <<>>, None)

StylesInit ==
    /\ saved_styles = {}
    /\ saved_style_seq = 0
    /\ user_settings = <<>>
    /\ saved_styles_cache = <<>>
    /\ active_saved_style_cache = <<>>
    /\ user_style_cache = <<>>
    /\ user_custom_prompt_cache = <<>>
    /\ styles_call = NoStylesCall

StylesFrame == ModuleFrame /\ UNCHANGED supportVars /\ UNCHANGED rulesVars

savedVars == <<saved_styles, saved_style_seq, saved_styles_cache>>
activeVars == <<user_settings, active_saved_style_cache, user_style_cache,
                user_custom_prompt_cache>>

\* styles.py:134-137
CallAddSavedStyle ==
    /\ saved_style_seq < MaxStyles
    /\ \E u \in StyleUsers :
          /\ saved_styles' =
                 db_add_saved_style(saved_styles, saved_style_seq, u, StyleName, StylePrompt)
          /\ saved_style_seq' = saved_style_seq + 1
          /\ saved_styles_cache' = invalidate_saved_styles_cache(saved_styles_cache, u)
          /\ styles_call' = StylesCall("add_saved_style", u, PyInt(saved_style_seq + 1), TRUE,
                                       <<>>, None)
    /\ UNCHANGED activeVars
    /\ StylesFrame

\* styles.py:140-144
CallDeleteSavedStyle ==
    /\ \E u \in StyleUsers, id \in StyleIds :
          LET deleted == db_delete_saved_style(saved_styles, u, id) # saved_styles
          IN /\ saved_styles' = db_delete_saved_style(saved_styles, u, id)
             /\ saved_styles_cache' = InvalidateAfterDelete(saved_styles_cache, u, deleted)
             /\ styles_call' = StylesCall("delete_saved_style", u, PyInt(id), deleted, <<>>,
                                          None)
    /\ UNCHANGED saved_style_seq
    /\ UNCHANGED activeVars
    /\ StylesFrame

CallGetSavedStyles ==
    /\ \E u \in StyleUsers :
          LET got == get_saved_styles(saved_styles_cache, saved_styles, u)
          IN /\ saved_styles_cache' = got.cache
             /\ styles_call' = StylesCall("get_saved_styles", u, None, TRUE, got.styles, None)
    /\ UNCHANGED <<saved_styles, saved_style_seq>>
    /\ UNCHANGED activeVars
    /\ StylesFrame

CallGetSavedStyle ==
    /\ \E u \in StyleUsers, id \in {None} \cup {PyInt(i) : i \in StyleIds} :
          LET got == get_saved_style(saved_styles_cache, saved_styles, u, id)
          IN /\ saved_styles_cache' = got.cache
             /\ styles_call' = StylesCall("get_saved_style", u, id, got.style # <<>>,
                                          got.style, None)
    /\ UNCHANGED <<saved_styles, saved_style_seq>>
    /\ UNCHANGED activeVars
    /\ StylesFrame

\* the ids the caller can offer: None or a saved style the user has
OwnStyleIds(user_id) == {None} \cup {PyInt(r.id) : r \in {q \in saved_styles : q.user_id = user_id}}

CallSetActiveSavedStyle ==
    /\ \E u \in StyleUsers :
          \E id \in OwnStyleIds(u) :
             LET set == set_active_saved_style(active_saved_style_cache, user_settings, u, id)
             IN /\ active_saved_style_cache' = set.active
                /\ user_settings' = set.settings
                /\ styles_call' = StylesCall("set_active_saved_style", u, id, TRUE, <<>>, None)
    /\ UNCHANGED <<user_style_cache, user_custom_prompt_cache>>
    /\ UNCHANGED savedVars
    /\ StylesFrame

CallGetActiveSavedStyleId ==
    /\ \E u \in StyleUsers :
          LET got == get_active_saved_style_id(active_saved_style_cache, user_settings, u)
          IN /\ active_saved_style_cache' = got.active
             /\ styles_call' = StylesCall("get_active_saved_style_id", u, None, TRUE, <<>>,
                                          got.value)
    /\ UNCHANGED <<user_settings, user_style_cache, user_custom_prompt_cache>>
    /\ UNCHANGED savedVars
    /\ StylesFrame

\* styles.py:77-80
CallSetUserStyle ==
    /\ \E u \in StyleUsers, style_key \in StyleKeys :
          \E saved_style_id \in OwnStyleIds(u) :
             LET set == set_active_saved_style(
                            active_saved_style_cache,
                            db_set_user_setting(user_settings, u, "ai_style", style_key),
                            u, saved_style_id)
             IN /\ user_style_cache' = With(user_style_cache, u, style_key)
                /\ active_saved_style_cache' = set.active
                /\ user_settings' = set.settings
                /\ styles_call' = StylesCall("set_user_style", u, saved_style_id, TRUE, <<>>,
                                             None)
    /\ UNCHANGED user_custom_prompt_cache
    /\ UNCHANGED savedVars
    /\ StylesFrame

\* styles.py:83-88
CallResetUserStyle ==
    /\ \E u \in StyleUsers :
          LET set == set_active_saved_style(
                         active_saved_style_cache,
                         db_delete_user_setting(
                             db_delete_user_setting(user_settings, u, "ai_style"),
                             u, "ai_style_custom_prompt"),
                         u, None)
          IN /\ user_style_cache' = With(user_style_cache, u, None)
             /\ user_custom_prompt_cache' = With(user_custom_prompt_cache, u, None)
             /\ active_saved_style_cache' = set.active
             /\ user_settings' = set.settings
             /\ styles_call' = StylesCall("reset_user_style", u, None, TRUE, <<>>, None)
    /\ UNCHANGED savedVars
    /\ StylesFrame

SavedStylesNext ==
    CallAddSavedStyle \/ CallDeleteSavedStyle \/ CallGetSavedStyles \/ CallGetSavedStyle

ActiveStyleNext ==
    \/ CallAddSavedStyle \/ CallDeleteSavedStyle
    \/ CallSetActiveSavedStyle \/ CallGetActiveSavedStyleId
    \/ CallSetUserStyle \/ CallResetUserStyle

(***************************************************************************)
(* Specifications, one per component; the others stay in their initial     *)
(* state.                                                                  *)
(***************************************************************************)
Init == HistInit /\ StoreInit /\ DebateInit /\ CaptureInit /\ SchedInit /\ VariedInit
        /\ ContextInit /\ SupportInit /\ RulesInit /\ StylesInit

\* the whole program
Next == HistNext \/ StoreNext \/ DebateNext \/ CaptureNext \/ ScheduleNext \/ VariedNext
            \/ BuildContext \/ CallCanSend
            \/ CallStartRulesCapture \/ CallIsRulesCaptureActive \/ CallCancelRulesCapture
            \/ SavedStylesNext \/ ActiveStyleNext

\* the oracle's outcomes are drawn from the full menu of response contents, or from the
\* short menu used when time passes between the steps
\* (only the dialogue context reads the history limit: the other components are
\* checked under one value of it)
InitContent ==
    Init /\ debate_menu = "content" /\ AUTO_DEBATE_HISTORY_LIMIT = MaxHistoryLimit

InitTiming ==
    Init /\ debate_menu = "timing" /\ AUTO_DEBATE_HISTORY_LIMIT = MaxHistoryLimit

\* the store alone: the settings no store call reads are fixed
InitStore == InitContent /\ debate_enabled /\ openrouter_api_key

\* the pipeline alone: with and without a credential
InitCapture == InitContent /\ debate_enabled

\* every configured history limit
InitContext == Init /\ debate_menu = "content"

Spec == InitContent /\ [][Next]_vars

SpecHistory == InitContent /\ [][HistNext]_vars

SpecStore == InitStore /\ [][StoreNext]_vars

SpecDecision == InitContent /\ [][DecisionNext]_vars

SpecDebate == InitTiming /\ [][DebateNext]_vars

SpecCapture == InitCapture /\ [][CaptureNext]_vars

SpecPipeline == InitCapture /\ [][PipelineNext]_vars

SpecSchedule == InitContent /\ [][ScheduleNext]_vars

SpecVaried == InitContent /\ [][VariedNext]_vars

\* the module components alone: one credential, the debate switched on
InitModule == InitContent /\ debate_enabled /\ openrouter_api_key

SpecSupport == InitModule /\ [][SupportNext]_vars

SpecRules == InitModule /\ [][RulesNext]_vars

SpecSavedStyles == InitModule /\ [][SavedStylesNext]_vars

SpecActiveStyle == InitModule /\ [][ActiveStyleNext]_vars

SpecContext == InitContext /\ [][ContextNext]_vars

(***************************************************************************)
(* C1: the snapshot of a conversation never holds more than                *)
(* CHAT_HISTORY_LIMIT entries and is always the last CHAT_HISTORY_LIMIT    *)
(* appended entries in arrival order; once more than CHAT_HISTORY_LIMIT    *)
(* entries were appended, the first appended one is no longer part of it.  *)
(***************************************************************************)
C1_HistoryRingBounded ==
    \A c \in Chats :
        LET snap == get_chat_history_entries(c)
            n == Len(hist_log[c])
        IN /\ Len(snap) <= CHAT_HISTORY_LIMIT
           /\ snap = LastN(hist_log[c], Min(n, CHAT_HISTORY_LIMIT))
           /\ n > CHAT_HISTORY_LIMIT =>
                 /\ snap = SubSeq(hist_log[c], n - CHAT_HISTORY_LIMIT + 1, n)
                 /\ (\A i \in 2..n : hist_log[c][i] # hist_log[c][1])
                        => \A j \in 1..Len(snap) : snap[j] # hist_log[c][1]

C1_Witness ==
    \E c \in Chats :
        /\ Len(hist_log[c]) = CHAT_HISTORY_LIMIT + 1
        /\ \A i \in 2..Len(hist_log[c]) : hist_log[c][i] # hist_log[c][1]
        /\ Len(get_chat_history_entries(c)) = CHAT_HISTORY_LIMIT

(***************************************************************************)
(* C2: after any sequence of add_chat_memory calls, get_chat_memories(c,   *)
(* CHAT_MEMORY_DB_LIMIT) returns at most CHAT_MEMORY_DB_LIMIT rows, and    *)
(* they are the most recently inserted non-empty summaries of c (as        *)
(* stored, i.e. cut to the character cap), newest first.                   *)
(***************************************************************************)
NonEmptyOf(log) == SelectSeq(log, LAMBDA t : t # <<>>)

Reverse(s) == [i \in 1..Len(s) |-> s[Len(s) + 1 - i]]

C2_ChatMemoriesNewestN ==
    \A c \in Chats :
        LET got == get_chat_memories(c, CHAT_MEMORY_DB_LIMIT)
            ins == NonEmptyOf(chat_mem_log[c])
            k == Min(Len(ins), CHAT_MEMORY_DB_LIMIT)
            newest == Reverse(SubSeq(ins, Len(ins) - k + 1, Len(ins)))
        IN /\ Len(got) <= CHAT_MEMORY_DB_LIMIT
           /\ got = [i \in 1..k |-> Take(newest[i], CHAT_MEMORY_MESSAGE_CHAR_LIMIT)]

C2_Witness ==
    \E c \in Chats, d \in Chats :
        /\ c # d
        /\ Len(NonEmptyOf(chat_mem_log[c])) > CHAT_MEMORY_DB_LIMIT
        /\ Len(NonEmptyOf(chat_mem_log[d])) > 0
        /\ Len(get_chat_memories(c, CHAT_MEMORY_DB_LIMIT)) = CHAT_MEMORY_DB_LIMIT

(***************************************************************************)
(* Shorthands of the claims about the Debate Decision Engine.              *)
(***************************************************************************)
\* the call of flow f has returned or raised
Finished(f) == flow[f].pc \in {"triggered", "done", "raised"}

\* the call of flow f issued its oracle request and got the outcome back
Answered(f) == Finished(f) /\ flow[f].calls = 1

\* the call of flow f returned (True, reason)
Triggered(f) == Finished(f) /\ flow[f].res.exc = "ok" /\ flow[f].res.trigger

\* the response text should_trigger_auto_debate received from the oracle call
ResponseOf(f) == call_openrouter(flow[f].oracle).value

HasText(f) ==
    /\ Answered(f)
    /\ call_openrouter(flow[f].oracle).exc = "ok"
    /\ ResponseOf(f).kind # "none"
    /\ RawText(ResponseOf(f)) # <<>>

\* the response is a JSON object
Structured(f) == HasText(f) /\ ResponseOf(f).kind = "json" /\ ResponseOf(f).json.v.t = "dict"

\* ... whose fields have the types of the contract {should_reply: bool,
\* confidence: number, reason: string}, each possibly missing
WellTyped(f) ==
    /\ Structured(f)
    /\ ResponseOf(f).json.d.should_reply.t \in {"bool", "absent"}
    /\ ResponseOf(f).json.d.confidence.t \in {"num", "absent"}
    /\ ResponseOf(f).json.d.reason.t \in {"str", "null", "absent"}

\* the reason the oracle produced: the reason field of a non-empty object, else the text
ProducedReason(f) ==
    IF Structured(f) /\ ResponseOf(f).json.v.n > 0
    THEN ResponseOf(f).json.d.reason
    ELSE JStr(RawText(ResponseOf(f)))

Abs(x) == IF x < 0 THEN -x ELSE x

(***************************************************************************)
(* C3: with a window of 60 s, of two candidates of one conversation 10 s   *)
(* apart, both answered should_reply=true, confidence=0.9 by the oracle,   *)
(* only the first yields a trigger; the second never does.                 *)
(***************************************************************************)
C3_OnlyFirstTriggers ==
    \A f \in Flows, g \in Flows :
        (/\ f # g
         /\ AUTO_DEBATE_COOLDOWN = 6
         /\ flow[f].pc # "idle" /\ flow[g].pc # "idle"
         /\ flow[f].chat = flow[g].chat
         /\ flow[g].start = flow[f].start + 1
         /\ flow[f].oracle = Answer(JBool(TRUE), JNum(9), JStr(<<"a", "b">>))
         /\ flow[g].oracle = Answer(JBool(TRUE), JNum(9), JStr(<<"a", "b">>))
         /\ Triggered(f))
        => ~Triggered(g)

(***************************************************************************)
(* C3, sequential case: a candidate that arrives less than                 *)
(* AUTO_DEBATE_COOLDOWN after the latest trigger of its conversation was   *)
(* returned and marked (10 s after, with a window of 60 s) yields no       *)
(* trigger: it is rejected by the cooldown check and no oracle request is  *)
(* made for it.                                                            *)
(***************************************************************************)
C3_SecondRejectedByCooldown ==
    \A f \in Flows :
        (/\ flow[f].pc # "idle"
         /\ flow[f].rejected # "gate"
         /\ flow[f].prior # 0
         /\ flow[f].start - flow[f].prior < AUTO_DEBATE_COOLDOWN)
        => /\ flow[f].pc = "done"
           /\ flow[f].rejected = "cooldown"
           /\ flow[f].calls = 0
           /\ ~flow[f].res.trigger

C3_Witness ==
    \E f \in Flows, g \in Flows :
        /\ f # g
        /\ flow[f].chat = flow[g].chat
        /\ Triggered(f) /\ flow[f].pc = "done"
        /\ flow[f].oracle = Answer(JBool(TRUE), JNum(9), JStr(<<"a", "b">>))
        /\ flow[g].start = flow[f].start + 1
        /\ flow[g].prior = flow[f].at
        /\ AUTO_DEBATE_COOLDOWN = 6
        /\ flow[g].rejected = "cooldown"

(***************************************************************************)
(* C4: any two triggers returned for one conversation, each followed by    *)
(* the caller's mark, are at least AUTO_DEBATE_COOLDOWN apart.             *)
(***************************************************************************)
C4_TriggersCooldownApart ==
    \A f \in Flows, g \in Flows :
        (/\ f # g
         /\ Triggered(f) /\ flow[f].pc = "done"
         /\ Triggered(g) /\ flow[g].pc = "done"
         /\ flow[f].chat = flow[g].chat)
        => Abs(flow[f].at - flow[g].at) >= AUTO_DEBATE_COOLDOWN

(***************************************************************************)
(* C5: when the oracle's response is a JSON object with fields of the      *)
(* contract's types, the call triggers if and only if should_reply is true *)
(* and confidence >= AUTO_DEBATE_CONFIDENCE_THRESHOLD.                     *)
(***************************************************************************)
C5_TriggerIffConfident ==
    \A f \in Flows :
        WellTyped(f) =>
            LET d == ResponseOf(f).json.d
            IN /\ flow[f].res.exc = "ok"
               /\ flow[f].res.trigger <=>
                     /\ d.should_reply = JBool(TRUE)
                     /\ d.confidence.t = "num"
                     /\ d.confidence.n >= AUTO_DEBATE_CONFIDENCE_THRESHOLD

C5_Witness ==
    \E f \in Flows, g \in Flows :
        /\ WellTyped(f)
        /\ ResponseOf(f).json.d.should_reply = JBool(TRUE)
        /\ ResponseOf(f).json.d.confidence = JNum(4)
        /\ AUTO_DEBATE_CONFIDENCE_THRESHOLD = 6
        /\ ~flow[f].res.trigger
        /\ WellTyped(g)
        /\ ResponseOf(g).json.d.confidence = JNum(AUTO_DEBATE_CONFIDENCE_THRESHOLD)
        /\ flow[g].res.trigger

(***************************************************************************)
(* C6: when the oracle call fails (no credential, network error, non-200   *)
(* status) or yields empty content, the call returns (False, None) and     *)
(* raises nothing.                                                         *)
(***************************************************************************)
OracleFailed(o) ==
    \/ ~o.key
    \/ o.net = "error"
    \/ o.status # 200
    \/ o.body \in {"nochoices", "emptychoices"}
    \/ o.body = "choice" /\ o.ckind = "null"
    \/ o.body = "choice" /\ o.ckind = "str" /\ Strip(RawText(o.content)) = <<>>

C6_FailureRejects ==
    \A f \in Flows :
        (Answered(f) /\ OracleFailed(flow[f].oracle))
        => /\ flow[f].pc = "done"
           /\ flow[f].res = Result("ok", FALSE, JNull)

C6_Witness ==
    \E f \in Flows, g \in Flows :
        /\ Answered(f) /\ flow[f].oracle = NetError /\ flow[f].pc = "done"
        /\ Answered(g) /\ flow[g].oracle.status = 401 /\ flow[g].pc = "done"

(***************************************************************************)
(* C7: for every non-empty response text, however malformed, the call      *)
(* returns a (bool, optional string) result and raises nothing.            *)
(***************************************************************************)
C7_NeverRaisesOnText ==
    \A f \in Flows :
        HasText(f) =>
            /\ flow[f].pc # "raised"
            /\ flow[f].res.exc = "ok"
            /\ flow[f].res.reason.t \in {"null", "str"}

(***************************************************************************)
(* C8, as claimed: a reason longer than AUTO_DEBATE_REASON_MAX_CHARS is    *)
(* returned with length exactly AUTO_DEBATE_REASON_MAX_CHARS, ending with  *)
(* the ellipsis marker.                                                    *)
(***************************************************************************)
C8_Original ==
    \A f \in Flows :
        (/\ Triggered(f)
         /\ ProducedReason(f).t = "str"
         /\ Len(ProducedReason(f).s) > AUTO_DEBATE_REASON_MAX_CHARS)
        => LET out == flow[f].res.reason.s
           IN /\ Len(out) = AUTO_DEBATE_REASON_MAX_CHARS
              /\ out[Len(out)] = Ellipsis

(***************************************************************************)
(* C8, amended: a reason that is longer than AUTO_DEBATE_REASON_MAX_CHARS  *)
(* after its surrounding whitespace is stripped is returned as its first   *)
(* AUTO_DEBATE_REASON_MAX_CHARS characters, trailing whitespace removed,   *)
(* followed by the ellipsis marker: at most AUTO_DEBATE_REASON_MAX_CHARS+1 *)
(* characters, and exactly that many when the cut does not end in          *)
(* whitespace.                                                             *)
(***************************************************************************)
C8_TruncatedReason ==
    \A f \in Flows :
        (/\ Triggered(f)
         /\ ProducedReason(f).t = "str"
         /\ Len(Strip(ProducedReason(f).s)) > AUTO_DEBATE_REASON_MAX_CHARS)
        => LET src == Strip(ProducedReason(f).s)
               out == flow[f].res.reason.s
               kept == SubSeq(out, 1, Len(out) - 1)
           IN /\ flow[f].res.reason.t = "str"
              /\ Len(out) >= 1 /\ out[Len(out)] = Ellipsis
              /\ Len(out) <= AUTO_DEBATE_REASON_MAX_CHARS + 1
              /\ kept = SubSeq(src, 1, Len(kept))
              /\ kept = <<>> \/ ~IsSpace(kept[Len(kept)])
              /\ \A i \in (Len(kept) + 1)..AUTO_DEBATE_REASON_MAX_CHARS : IsSpace(src[i])
              /\ ~IsSpace(src[AUTO_DEBATE_REASON_MAX_CHARS])
                    => Len(out) = AUTO_DEBATE_REASON_MAX_CHARS + 1

C8_Witness ==
    \E f \in Flows, g \in Flows :
        /\ Triggered(f)
        /\ ProducedReason(f) = JStr(<<"a", "b", "c", "d">>)
        /\ flow[f].res.reason = JStr(<<"a", "b", "c", Ellipsis>>)
        /\ Triggered(g)
        /\ ProducedReason(g) = JStr(<<"a", " ", " ", "b", "c">>)
        /\ flow[g].res.reason = JStr(<<"a", Ellipsis>>)

(***************************************************************************)
(* C9, as claimed: a reason shorter than AUTO_DEBATE_REASON_MAX_CHARS is   *)
(* returned unchanged, character for character.                            *)
(***************************************************************************)
C9_Original ==
    \A f \in Flows :
        (/\ Triggered(f)
         /\ ProducedReason(f).t = "str"
         /\ Len(ProducedReason(f).s) < AUTO_DEBATE_REASON_MAX_CHARS)
        => flow[f].res.reason = ProducedReason(f)

(***************************************************************************)
(* C9, amended: a reason shorter than AUTO_DEBATE_REASON_MAX_CHARS is      *)
(* returned with its leading and trailing whitespace removed and nothing   *)
(* else changed (so unchanged when it has none); no ellipsis is added.     *)
(***************************************************************************)
C9_ShortReasonStripped ==
    \A f \in Flows :
        (/\ Triggered(f)
         /\ ProducedReason(f).t = "str"
         /\ Len(ProducedReason(f).s) < AUTO_DEBATE_REASON_MAX_CHARS)
        => LET src == ProducedReason(f).s
               out == flow[f].res.reason.s
           IN /\ flow[f].res.reason.t = "str"
              /\ \E i \in 1..(Len(src) + 1) :
                    /\ out = SubSeq(src, i, i + Len(out) - 1)
                    /\ \A j \in 1..(i - 1) : IsSpace(src[j])
                    /\ \A j \in (i + Len(out))..Len(src) : IsSpace(src[j])
              /\ out = <<>> \/ (~IsSpace(out[1]) /\ ~IsSpace(out[Len(out)]))
              /\ (src = <<>> \/ (~IsSpace(src[1]) /\ ~IsSpace(src[Len(src)]))) => out = src

C9_Witness ==
    \E f \in Flows, g \in Flows :
        /\ Triggered(f)
        /\ ProducedReason(f) = JStr(<<"a", "b">>)
        /\ flow[f].res.reason = JStr(<<"a", "b">>)
        /\ Triggered(g)
        /\ ProducedReason(g) = JStr(<<" ", "a">>)
        /\ flow[g].res.reason = JStr(<<"a">>)

(***************************************************************************)
(* C10: when store_structured_memories has run to its end on a group       *)
(* message, fallback notes were written if and only if the extracted chat  *)
(* facts and user facts are both empty, at least one Target (a target that *)
(* carries a user id) was supplied and the message has text or a caption;  *)
(* then exactly one note per supplied Target was written, in order, for    *)
(* that Target's user id, and it is in the store.                          *)
(***************************************************************************)
SuppliedTargets(targets) == SelectSeq(targets, LAMBDA x : x.user_id # 0)

PipelineDone(t) == task[t].pc = "done" /\ task[t].msg.chat_type \in GroupTypes

C10_FallbackIffNothingExtracted ==
    \A t \in Tasks :
        PipelineDone(t) =>
            LET given == SuppliedTargets(task[t].targets)
                wrote == task[t].fallback
                applies == /\ task[t].facts.chat_facts = <<>>
                           /\ task[t].facts.user_facts = <<>>
                           /\ given # <<>>
                           /\ HasTextOrCaption(task[t].msg)
            IN /\ wrote # <<>> <=> applies
               /\ applies =>
                     /\ Len(wrote) = Len(given)
                     /\ \A i \in 1..Len(given) :
                           /\ wrote[i].subject = given[i].user_id
                           /\ \E r \in user_memories :
                                 /\ r.chat_id = task[t].msg.chat
                                 /\ r.subject_user_id = given[i].user_id
                                 /\ r.source_user_id = task[t].msg.from_user.id
                                 /\ r.note = Take(wrote[i].note, CHAT_MEMORY_MESSAGE_CHAR_LIMIT)

C10_Witness ==
    \E t \in Tasks, u \in Tasks :
        /\ PipelineDone(t)
        /\ task[t].msg.text = <<"h", "e", "l", "l", "o">>
        /\ task[t].targets = <<TargetBob>>
        /\ task[t].calls = 1
        /\ task[t].oracle = MemAnswer(Absent, Absent)
        /\ Len(task[t].fallback) = 1
        /\ task[t].fallback[1].subject = TargetBob.user_id
        /\ Cardinality({r \in user_memories : r.subject_user_id = TargetBob.user_id}) = 1
        /\ PipelineDone(u)
        /\ task[u].targets = <<>>
        /\ task[u].calls = 1
        /\ task[u].oracle = MemAnswer(Absent, Absent)
        /\ task[u].fallback = <<>>

(***************************************************************************)
(* C11: a failure raised inside a dispatched pipeline (a store error, an   *)
(* exception from the handling of the oracle's answer) is caught and       *)
(* logged by _runner: it never escapes the task and never reaches the      *)
(* caller of schedule_memory_capture.                                      *)
(***************************************************************************)
C11_FailuresCaughtAtDispatch ==
    \A t \in Tasks :
        /\ sched[t].exc = "ok"
        /\ sched[t].runner # "escaped"
        /\ (sched[t].dispatched /\ task[t].pc = "raised")
               => /\ sched[t].runner = "caught"
                  /\ sched[t].logged = task[t].exc

C11_Witness ==
    \E t \in Tasks, u \in Tasks :
        /\ t # u
        /\ task[t].pc = "raised" /\ task[t].exc = "AttributeError"
        /\ sched[t].runner = "caught" /\ sched[t].pc = "proceeded"
        /\ task[u].pc = "raised" /\ task[u].exc = "OperationalError"
        /\ sched[u].runner = "caught"

(***************************************************************************)
(* C12: when schedule_memory_capture returns, the task it dispatched has   *)
(* not run: it is pending, has made no oracle call and no store write.     *)
(* The caller goes on while the task is still pending.                     *)
(***************************************************************************)
C12_ReturnsBeforeTaskRuns ==
    \A k \in Tasks :
        (sched[k].pc # "idle" /\ sched[k].dispatched)
            => /\ sched[k].at_return.pc = "pending"
               /\ sched[k].at_return.calls = 0
               /\ sched[k].at_return.writes = 0

C12_Witness ==
    \E k \in Tasks :
        /\ sched[k].dispatched
        /\ sched[k].pc = "proceeded"
        /\ task[k].pc = "pending"

(***************************************************************************)
(* C13: choose_varied_entries returns its entries unchanged, same elements *)
(* in the same order, whenever limit <= 0 or len(entries) <= limit.        *)
(***************************************************************************)
C13_UnchangedWithinLimit ==
    (varied.pc = "done" /\ (varied.limit <= 0 \/ Len(varied.entries) <= varied.limit))
        => varied.result = varied.entries

C13_Witness ==
    /\ varied.pc = "done"
    /\ varied.limit = 3
    /\ Len(varied.entries) = 2
    /\ varied.result = varied.entries

(***************************************************************************)
(* C14: when len(entries) > limit > 0, the result begins with the first    *)
(* MEMORY_MIN_RECENT_SHARE entries of the input, in input order, whatever  *)
(* the random sample is.                                                   *)
(***************************************************************************)
C14_RecentBlockKept ==
    (varied.pc = "done" /\ Len(varied.entries) > varied.limit /\ varied.limit > 0)
        => /\ Len(varied.result) >= Min(MEMORY_MIN_RECENT_SHARE, Len(varied.entries))
           /\ Take(varied.result, MEMORY_MIN_RECENT_SHARE)
                  = Take(varied.entries, MEMORY_MIN_RECENT_SHARE)

C14_Witness ==
    /\ varied.pc = "done"
    /\ Len(varied.entries) = 4
    /\ varied.limit = 3
    /\ Len(varied.result) = 3
    /\ varied.entries[3] # varied.entries[4]
    /\ varied.result[3] = varied.entries[4]

(***************************************************************************)
(* C15: no step of should_trigger_auto_debate changes                      *)
(* auto_debate_last_reply, whatever it returns; the map changes only when  *)
(* the caller's mark_auto_debate_reply sets the entry of the conversation, *)
(* and no entry ever disappears.                                           *)
(***************************************************************************)
C15_OnlyMarkWritesCooldownMap ==
    [][/\ (auto_debate_last_reply' # auto_debate_last_reply
              => \E f \in Flows :
                     /\ flow[f].pc = "triggered"
                     /\ flow'[f].pc = "done"
                     /\ auto_debate_last_reply' =
                            mark_auto_debate_reply(auto_debate_last_reply, flow[f].chat,
                                                   now))
       /\ \A c \in DOMAIN auto_debate_last_reply : c \in DOMAIN auto_debate_last_reply'
      ]_vars

C15_Witness ==
    \E f \in Flows :
        /\ flow[f].pc = "triggered"
        /\ flow[f].res.trigger
        /\ flow[f].chat \notin DOMAIN auto_debate_last_reply

(***************************************************************************)
(* C16: a candidate that passed step 1 is rejected by the cooldown check   *)
(* exactly when its conversation was marked before and the candidate       *)
(* arrives less than AUTO_DEBATE_COOLDOWN after that mark; otherwise (never *)
(* marked, marked AUTO_DEBATE_COOLDOWN or more ago, only other             *)
(* conversations marked) it goes on to the oracle call.                    *)
(***************************************************************************)
\* the conversation of flow f was marked less than a window before f began
InsideWindow(f) ==
    flow[f].prior # 0 /\ flow[f].start - flow[f].prior < AUTO_DEBATE_COOLDOWN

C16_CooldownIffInsideWindow ==
    \A f \in Flows :
        (flow[f].pc # "idle" /\ flow[f].rejected # "gate")
            => /\ flow[f].rejected = "cooldown" <=> InsideWindow(f)
               /\ flow[f].rejected = "cooldown" => flow[f].calls = 0 /\ flow[f].pc = "done"
               /\ flow[f].rejected = "no" => flow[f].calls = 1

C16_Witness ==
    \E f \in Flows :
        /\ flow[f].prior # 0
        /\ flow[f].start - flow[f].prior = AUTO_DEBATE_COOLDOWN
        /\ flow[f].chat \in DOMAIN auto_debate_last_reply
        /\ flow[f].rejected = "no"
        /\ flow[f].calls = 1

(***************************************************************************)
(* C17: a call rejected at step 1 (feature disabled, sender absent or a    *)
(* bot, stripped text shorter than AUTO_DEBATE_MIN_TEXT_LENGTH) or by the  *)
(* cooldown issues no oracle request; every other call issues exactly one, *)
(* also when the request fails.                                            *)
(***************************************************************************)
\* the message of flow f meets a rejection condition of step 1
FailsStepOne(f) ==
    LET m == flow[f].msg
    IN \/ ~debate_enabled
       \/ m.from_user = NoUser
       \/ m.from_user.is_bot
       \/ Len(Strip(IF m.text # None /\ m.text # <<>> THEN m.text
                    ELSE IF m.caption # None /\ m.caption # <<>> THEN m.caption
                    ELSE <<>>)) < AUTO_DEBATE_MIN_TEXT_LENGTH

C17_OracleRequestsPerCall ==
    \A f \in Flows :
        flow[f].pc # "idle"
            => IF FailsStepOne(f) \/ InsideWindow(f)
               THEN flow[f].calls = 0 /\ flow[f].pc = "done" /\ ~flow[f].res.trigger
               ELSE flow[f].calls = 1

C17_Witness ==
    \E f \in Flows, g \in Flows :
        /\ debate_enabled
        /\ flow[f].pc = "done" /\ flow[f].msg.message_id = 3 /\ flow[f].calls = 0
        /\ flow[g].pc = "done" /\ flow[g].oracle = NetError /\ flow[g].calls = 1

(***************************************************************************)
(* C18: when the response text is not JSON, the call triggers (the         *)
(* threshold being at most 1) exactly when the text contains "true" or     *)
(* "yes" in any letter case, and then returns the response text as the     *)
(* reason, cut like every reason when it is longer than                    *)
(* AUTO_DEBATE_REASON_MAX_CHARS; otherwise it returns (False, None).       *)
(***************************************************************************)
\* the response of flow f is text that json.loads rejects
Unparseable(f) == HasText(f) /\ ResponseOf(f).kind = "prose"

AffirmativeText(raw) ==
    \E i \in 1..Len(raw), token \in {<<"t", "r", "u", "e">>, <<"y", "e", "s">>} :
        /\ i + Len(token) - 1 <= Len(raw)
        /\ \A j \in 1..Len(token) : LowerChar(raw[i + j - 1]) = token[j]

C18_HeuristicOnUnparseable ==
    \A f \in Flows :
        (Unparseable(f) /\ AUTO_DEBATE_CONFIDENCE_THRESHOLD <= 10)
            => LET raw == RawText(ResponseOf(f))
               IN /\ flow[f].res.exc = "ok"
                  /\ flow[f].res.trigger <=> AffirmativeText(raw)
                  /\ flow[f].res.trigger
                        => flow[f].res.reason =
                               JStr(IF Len(raw) <= AUTO_DEBATE_REASON_MAX_CHARS THEN raw
                                    ELSE RStrip(Take(raw, AUTO_DEBATE_REASON_MAX_CHARS))
                                             \o <<Ellipsis>>)
                  /\ ~flow[f].res.trigger => flow[f].res.reason = JNull

C18_Witness ==
    \E f \in Flows :
        /\ Unparseable(f)
        /\ RawText(ResponseOf(f)) = <<"Y", "e", "s">>
        /\ Triggered(f)
        /\ flow[f].res.reason = JStr(<<"Y", "e", "s">>)

(***************************************************************************)
(* C19: whenever should_trigger_auto_debate returns False, the reason it   *)
(* returns with it is None: after a rejection at step 1 or by the          *)
(* cooldown, an oracle failure, a low confidence or a negative heuristic.  *)
(***************************************************************************)
C19_NoReasonWithFalse ==
    \A f \in Flows :
        (Finished(f) /\ flow[f].res.exc = "ok" /\ ~flow[f].res.trigger)
            => flow[f].res.reason = JNull

C19_Witness ==
    \E f \in Flows :
        /\ Finished(f)
        /\ flow[f].oracle = Answer(JBool(TRUE), JNum(4), JStr(<<"a", "b">>))
        /\ flow[f].res = Result("ok", FALSE, JNull)

(***************************************************************************)
(* C20: the dialogue context holds at most AUTO_DEBATE_HISTORY_LIMIT       *)
(* entries, and they are the most recent entries of the conversation's     *)
(* History Ring, oldest first, for every value of the limit, 0 included.   *)
(***************************************************************************)
C20_ContextIsLastEntries ==
    dialogue.built
        => LET n == Min(AUTO_DEBATE_HISTORY_LIMIT, Len(dialogue.snapshot))
           IN /\ Len(dialogue.entries) <= AUTO_DEBATE_HISTORY_LIMIT
              /\ dialogue.entries
                     = SubSeq(dialogue.snapshot, Len(dialogue.snapshot) - n + 1,
                              Len(dialogue.snapshot))

(***************************************************************************)
(* C20, positive limits: for a limit of at least 1 the context is the last *)
(* min(limit, len) entries of the ring, oldest first.                      *)
(***************************************************************************)
C20_PositiveLimit ==
    (dialogue.built /\ AUTO_DEBATE_HISTORY_LIMIT >= 1)
        => LET n == Min(AUTO_DEBATE_HISTORY_LIMIT, Len(dialogue.snapshot))
           IN /\ Len(dialogue.entries) <= AUTO_DEBATE_HISTORY_LIMIT
              /\ dialogue.entries
                     = SubSeq(dialogue.snapshot, Len(dialogue.snapshot) - n + 1,
                              Len(dialogue.snapshot))


(***************************************************************************)
(* C21: for limit > 0, choose_varied_entries returns at most limit         *)
(* entries, also when MEMORY_MIN_RECENT_SHARE is larger than limit.        *)
(***************************************************************************)
C21_AtMostLimit ==
    (varied.pc = "done" /\ varied.limit > 0) => Len(varied.result) <= varied.limit

\* C21, the case the code handles: the budget is kept when the floor of the
\* recency block fits in it
C21_AtMostLimitWhenShareFits ==
    (varied.pc = "done" /\ varied.limit >= MEMORY_MIN_RECENT_SHARE)
        => Len(varied.result) <= varied.limit

(***************************************************************************)
(* C22: when len(entries) > limit > 0, the returned items come from        *)
(* pairwise different positions of the input, the sampled ones from        *)
(* positions behind the recency block, and the caller's list is what it    *)
(* was before the call.                                                    *)
(***************************************************************************)
C22_EachPositionOnce ==
    (varied.pc = "done" /\ Len(varied.entries) > varied.limit /\ varied.limit > 0)
        => LET block == Len(RecentKeep(varied.entries, varied.limit))
           IN /\ Len(varied.picked) = Len(varied.result)
              /\ \A i \in 1..Len(varied.picked) :
                     /\ varied.picked[i] \in 1..Len(varied.entries)
                     /\ varied.result[i] = varied.entries[varied.picked[i]]
                     /\ i <= block => varied.picked[i] = i
                     /\ i > block => varied.picked[i] > block
              /\ \A i \in 1..Len(varied.picked), j \in 1..Len(varied.picked) :
                     i # j => varied.picked[i] # varied.picked[j]
              /\ varied.after = varied.entries

C22_Witness ==
    /\ varied.pc = "done"
    /\ Len(varied.entries) = 5
    /\ varied.limit = 4
    /\ varied.picked = <<1, 2, 5, 3>>
    /\ varied.entries[3] = varied.entries[5]
    /\ varied.after = varied.entries


(***************************************************************************)
(* C23: every stored chat-memory summary and user-memory note is non-empty *)
(* and at most CHAT_MEMORY_MESSAGE_CHAR_LIMIT long; a call with an empty   *)
(* text stores nothing and takes no row id, and every other call stores    *)
(* the text cut to the cap.                                                *)
(***************************************************************************)
\* the add_user_memory calls that passed a non-empty note, in call order
NonEmptyUserCalls == SelectSeq(user_mem_log, LAMBDA e : e.note # <<>>)

RECURSIVE NonEmptyChatCalls(_)
NonEmptyChatCalls(chats) ==
    IF chats = {} THEN 0
    ELSE LET c == CHOOSE x \in chats : TRUE
         IN Len(NonEmptyOf(chat_mem_log[c])) + NonEmptyChatCalls(chats \ {c})

C23_StoredTextsWithinCap ==
    /\ \A r \in chat_memories :
           r.summary # <<>> /\ Len(r.summary) <= CHAT_MEMORY_MESSAGE_CHAR_LIMIT
    /\ \A r \in user_memories :
           r.note # <<>> /\ Len(r.note) <= CHAT_MEMORY_MESSAGE_CHAR_LIMIT
    /\ chat_mem_seq = NonEmptyChatCalls(Chats)
    /\ user_mem_seq = Len(NonEmptyUserCalls)
    /\ user_memories =
           {[id |-> i,
             chat_id |-> NonEmptyUserCalls[i].chat_id,
             subject_user_id |-> NonEmptyUserCalls[i].subject_user_id,
             source_user_id |-> NonEmptyUserCalls[i].source_user_id,
             note |-> Take(NonEmptyUserCalls[i].note, CHAT_MEMORY_MESSAGE_CHAR_LIMIT)] :
                i \in 1..Len(NonEmptyUserCalls)}

C23_Witness ==
    /\ \E i \in 1..Len(user_mem_log) : user_mem_log[i].note = <<>>
    /\ \E i \in 1..Len(user_mem_log) :
           Len(user_mem_log[i].note) > CHAT_MEMORY_MESSAGE_CHAR_LIMIT
    /\ \E c \in Chats :
           /\ \E i \in 1..Len(chat_mem_log[c]) : chat_mem_log[c][i] = <<>>
           /\ \E i \in 1..Len(chat_mem_log[c]) :
                  Len(chat_mem_log[c][i]) > CHAT_MEMORY_MESSAGE_CHAR_LIMIT
    /\ chat_memories # {}
    /\ user_memories # {}

(***************************************************************************)
(* C24: no step deletes or changes a user-memory row, and                  *)
(* get_user_memories(c, u, limit) is the min(limit, count) most recently   *)
(* inserted notes of the pair (c, u), newest first.                        *)
(***************************************************************************)
ReadLimits == 0..3

\* the notes inserted for the pair, as stored, in insertion order
PairNotes(chat_id, user_id) ==
    LET mine == SelectSeq(NonEmptyUserCalls,
                          LAMBDA e : e.chat_id = chat_id /\ e.subject_user_id = user_id)
    IN [i \in 1..Len(mine) |-> Take(mine[i].note, CHAT_MEMORY_MESSAGE_CHAR_LIMIT)]

LoggedSubjects == {user_mem_log[i].subject_user_id : i \in 1..Len(user_mem_log)}

ReadsNewestOfPair ==
    \A c \in Chats, u \in LoggedSubjects, limit \in ReadLimits :
        get_user_memories(c, u, limit)
            = Take(Reverse(PairNotes(c, u)), Min(limit, Len(PairNotes(c, u))))

C24_UserMemoriesAppendOnly ==
    /\ []ReadsNewestOfPair
    /\ [][user_memories \subseteq user_memories']_vars

C24_Witness ==
    \E c \in Chats, d \in Chats, u \in LoggedSubjects, v \in LoggedSubjects :
        /\ c # d /\ u # v
        /\ Len(PairNotes(c, u)) >= 2
        /\ PairNotes(c, u)[1] # PairNotes(c, u)[2]
        /\ PairNotes(d, u) # <<>>
        /\ PairNotes(c, v) # <<>>
        /\ Cardinality({r \in chat_memories : r.chat_id = c}) = CHAT_MEMORY_DB_LIMIT
        /\ chat_mem_seq > CHAT_MEMORY_DB_LIMIT + 1


(***************************************************************************)
(* C25: under any interleaving of capture tasks writing to one             *)
(* conversation, no committed state of the store holds more than           *)
(* CHAT_MEMORY_DB_LIMIT chat-memory rows of a conversation.                *)
(***************************************************************************)
C25_NeverAboveCap ==
    /\ chat_mem_peak <= CHAT_MEMORY_DB_LIMIT
    /\ \A c \in Chats : RowsOfChat(chat_memories, c) <= CHAT_MEMORY_DB_LIMIT

C25_Witness ==
    \E t \in Tasks, u \in Tasks :
        /\ t # u
        /\ task[t].pc = "extract"
        /\ task[u].pc = "done"
        /\ task[u].calls = 1
        /\ task[t].msg.chat = task[u].msg.chat
        /\ chat_mem_log[task[t].msg.chat][1] = summarize_message_text(task[u].msg)
        /\ chat_mem_log[task[t].msg.chat][2] = summarize_message_text(task[t].msg)
        /\ Len(NonEmptyOf(chat_mem_log[task[t].msg.chat])) > CHAT_MEMORY_DB_LIMIT + 1
        /\ chat_mem_peak = CHAT_MEMORY_DB_LIMIT


(***************************************************************************)
(* C26: on a group or supergroup message store_structured_memories writes  *)
(* exactly one chat memory, the raw message summary, before the oracle is  *)
(* called, and the row stays when the oracle call fails or the extraction  *)
(* raises; on any other conversation it writes nothing and calls no oracle.*)
(***************************************************************************)
\* the step in which task t runs store_structured_memories up to its await or end
Begins(t) == task[t].pc = "idle" /\ task'[t].pc # "idle"

\* the step in which the oracle call of task t completes and t runs to its end
Resumes(t) == task[t].pc = "extract" /\ task'[t].pc # "extract"

\* the row of the raw summary of message m, written when the counter was seq
RawRow(m, seq) ==
    [id |-> seq + 1, chat_id |-> m.chat, message_id |-> m.message_id,
     author_id |-> m.from_user.id, author_name |-> get_display_name(m.from_user),
     summary |-> Take(summarize_message_text(m), CHAT_MEMORY_MESSAGE_CHAR_LIMIT)]

RawSummaryWrittenFirst(t) ==
    LET m == task'[t].msg
    IN /\ (Begins(t) /\ m.chat_type \in GroupTypes)
              => /\ chat_mem_log' =
                        [chat_mem_log EXCEPT ![m.chat] =
                            Append(@, summarize_message_text(m))]
                 /\ chat_mem_seq' = chat_mem_seq + 1
                 /\ RawRow(m, chat_mem_seq) \in chat_memories'
                 /\ task'[t].pc = "extract" => user_mem_log' = user_mem_log
       /\ (Begins(t) /\ m.chat_type \notin GroupTypes)
              => /\ UNCHANGED storeVars
                 /\ task'[t].pc = "done"
                 /\ task'[t].calls = 0
       /\ (Resumes(t) /\ task'[t].facts.chat_facts = <<>>)
              => /\ chat_memories' = chat_memories
                 /\ chat_mem_log' = chat_mem_log
       /\ (Resumes(t) /\ task'[t].pc = "raised") => UNCHANGED storeVars

C26_RawSummaryWrittenFirst == [][\A t \in Tasks : RawSummaryWrittenFirst(t)]_vars

C26_Witness ==
    /\ task["t1"].pc = "raised"
    /\ task["t1"].calls = 1
    /\ chat_memories = {RawRow(task["t1"].msg, 0)}


(***************************************************************************)
(* C27: for every oracle response that is not JSON, or JSON that is not an *)
(* object, or an object whose chat_facts or user_facts is of the wrong     *)
(* type, extract_memory_facts returns ([], {}) and raises nothing.         *)
(***************************************************************************)
\* the run of task t has made its oracle call and got the answer
Responded(t) == task[t].pc \in {"done", "raised"} /\ task[t].calls = 1

\* the oracle returned a text
GotText(t) ==
    LET got == call_openrouter(task[t].oracle)
    IN got.exc = "ok" /\ got.value.kind # "none" /\ RawText(got.value) # <<>>

NotJson(t) == call_openrouter(task[t].oracle).value.kind # "json"

Malformed(t) ==
    LET p == call_openrouter(task[t].oracle).value.json
    IN \/ NotJson(t)
       \/ p.v.t # "dict"
       \/ p.m.chat_facts.t \notin {"absent", "list"}
       \/ p.m.user_facts.t \notin {"absent", "list"}

ReturnedEmpty(t) ==
    task[t].pc = "done" /\ task[t].exc = "ok" /\ task[t].facts = NoFacts

C27_MalformedYieldsEmpty ==
    \A t \in Tasks : (Responded(t) /\ GotText(t) /\ Malformed(t)) => ReturnedEmpty(t)

\* C27, the case the code handles: a response that is not JSON
C27_UnparseableYieldsEmpty ==
    \A t \in Tasks : (Responded(t) /\ GotText(t) /\ NotJson(t)) => ReturnedEmpty(t)

(***************************************************************************)
(* C28: without a credential, or on a message with neither text nor        *)
(* caption, extract_memory_facts returns ([], {}) at once and no oracle    *)
(* request is made.                                                        *)
(***************************************************************************)
NoTextNorCaption(m) == m.text \in {None, <<>>} /\ m.caption \in {None, <<>>}

C28_NoRequestWithoutKeyOrText ==
    \A t \in Tasks :
        (/\ task[t].pc # "idle"
         /\ task[t].msg.chat_type \in GroupTypes
         /\ (~openrouter_api_key \/ NoTextNorCaption(task[t].msg)))
            => /\ task[t].calls = 0
               /\ ReturnedEmpty(t)
               /\ task[t].oracle = IdleTask.oracle

C28_Witness ==
    /\ ~openrouter_api_key
    /\ task["t1"].pc = "done"
    /\ task["t1"].msg.text = <<"h", "e", "l", "l", "o">>
    /\ task["t1"].msg.chat_type = "group"
    /\ task["t1"].calls = 0
    /\ task["t1"].fallback # <<>>

(***************************************************************************)
(* C29: one run of the pipeline stores at most MAX_MEMORY_FACTS extracted  *)
(* chat facts and, per subject user id, at most MAX_MEMORY_FACTS extracted *)
(* notes, however many the oracle returned.                                *)
(***************************************************************************)
\* the add_user_memory calls of the step
UserCallsOfStep == SubSeq(user_mem_log', Len(user_mem_log) + 1, Len(user_mem_log'))

CallsFor(calls, subject) == Len(SelectSeq(calls, LAMBDA e : e.subject_user_id = subject))

FactsCapped(t) ==
    Resumes(t) =>
        LET c == task[t].msg.chat
        IN /\ Len(chat_mem_log'[c]) - Len(chat_mem_log[c]) = Len(task'[t].facts.chat_facts)
           /\ Len(chat_mem_log'[c]) - Len(chat_mem_log[c]) <= MAX_MEMORY_FACTS
           /\ task'[t].fallback = <<>> =>
                  \A i \in 1..Len(UserCallsOfStep) :
                      CallsFor(UserCallsOfStep, UserCallsOfStep[i].subject_user_id)
                          <= MAX_MEMORY_FACTS

C29_AtMostMaxFactsStored == [][\A t \in Tasks : FactsCapped(t)]_vars

C29_Witness ==
    /\ task["t1"].pc = "done"
    /\ Len(task["t1"].oracle.content.json.m.chat_facts.items) > MAX_MEMORY_FACTS
    /\ Len(task["t1"].facts.chat_facts) = MAX_MEMORY_FACTS
    /\ \E g \in 1..Len(task["t1"].facts.user_facts) :
           /\ Len(task["t1"].facts.user_facts[g].notes) > MAX_MEMORY_FACTS
           /\ CallsFor(user_mem_log, task["t1"].facts.user_facts[g].uid) = MAX_MEMORY_FACTS
    /\ Len(user_mem_log) > MAX_MEMORY_FACTS


(***************************************************************************)
(* C30: schedule_memory_capture dispatches the pipeline only for a message *)
(* whose stripped text or caption is non-empty and does not start with     *)
(* "/", and whose sender is not a bot; for any other message no task is    *)
(* created, nothing is written to the store and no oracle request is made. *)
(***************************************************************************)
Eligible(m) ==
    LET content == IF m.text \notin {None, <<>>} THEN m.text
                   ELSE IF m.caption \notin {None, <<>>} THEN m.caption
                   ELSE <<>>
        text == Strip(content)
    IN /\ text # <<>>
       /\ text[1] # "/"
       /\ ~(m.from_user # NoUser /\ m.from_user.is_bot)

\* the call of schedule_memory_capture by caller k
Schedules(k) == sched[k].pc = "idle" /\ sched'[k].pc = "returned"

OnlyEligibleDispatched ==
    \A k \in Tasks :
        sched[k].pc # "idle" =>
            /\ sched[k].dispatched => Eligible(sched[k].msg)
            /\ ~Eligible(sched[k].msg) =>
                   /\ ~sched[k].dispatched
                   /\ task[k] = IdleTask
                   /\ sched[k].runner = "none"

RejectedChangesNothing ==
    \A k \in Tasks :
        (Schedules(k) /\ ~Eligible(sched'[k].msg))
            => /\ UNCHANGED storeVars
               /\ UNCHANGED task

C30_DispatchOnlyEligible ==
    /\ []OnlyEligibleDispatched
    /\ [][RejectedChangesNothing]_vars

C30_Witness ==
    \E k \in Tasks, j \in Tasks :
        /\ sched[k].dispatched
        /\ task[k].pc = "done" /\ task[k].calls = 1
        /\ sched[j].pc = "proceeded"
        /\ sched[j].msg.from_user = UserBot
        /\ ~sched[j].dispatched
        /\ task[j] = IdleTask
        /\ chat_mem_seq = 1


(***************************************************************************)
(* C31: add_chat_memory(c, ...) changes only conversation c: it deletes or *)
(* alters no chat-memory row of another conversation, whatever its row     *)
(* count, and it leaves the user memories as they are.                     *)
(***************************************************************************)
\* the step is a call add_chat_memory(c, ...)
AddsChatMemory(c) == chat_mem_log'[c] # chat_mem_log[c]

OnlyOwnChatChanged(c) ==
    AddsChatMemory(c) =>
        /\ \A d \in Chats \ {c} :
               {r \in chat_memories' : r.chat_id = d} = {r \in chat_memories : r.chat_id = d}
        /\ user_memories' = user_memories
        /\ user_mem_seq' = user_mem_seq

C31_OnlyOwnChatChanged == [][\A c \in Chats : OnlyOwnChatChanged(c)]_vars

C31_Witness ==
    \E c \in Chats, d \in Chats :
        /\ c # d
        /\ Len(NonEmptyOf(chat_mem_log[c])) > CHAT_MEMORY_DB_LIMIT
        /\ RowsOfChat(chat_memories, c) = CHAT_MEMORY_DB_LIMIT
        /\ \E r \in chat_memories :
               r.chat_id = d /\ \A q \in chat_memories : q.chat_id = c => r.id < q.id


(***************************************************************************)
(* C32: for every user, a call of can_send_support_message is allowed only *)
(* when the latest allowed call is at least cooldown_seconds back; a       *)
(* denied call leaves the stored time as it is and returns                 *)
(* cooldown_seconds minus the elapsed time, which lies in                  *)
(* 1..cooldown_seconds; an allowed call stores the current time.           *)
(***************************************************************************)
SupportCallChecked ==
    support_call' # support_call =>
        LET c == support_call'
            u == c.user_id
        IN /\ c.at = now
           /\ \A v \in DOMAIN last_support_time \ {u} :
                  v \in DOMAIN last_support_time' /\ last_support_time'[v] = last_support_time[v]
           /\ c.allowed =>
                  /\ u \in DOMAIN support_allowed_at
                         => c.at - support_allowed_at[u] >= c.cooldown_seconds
                  /\ last_support_time'[u] = now
                  /\ c.wait = 0
           /\ ~c.allowed =>
                  /\ last_support_time' = last_support_time
                  /\ u \in DOMAIN support_allowed_at
                  /\ c.wait = c.cooldown_seconds - (now - support_allowed_at[u])
                  /\ c.wait \in 1..c.cooldown_seconds

C32_SupportCooldown == [][SupportCallChecked]_vars

C32_Witness ==
    /\ support_call.called
    /\ ~support_call.allowed
    /\ support_call.wait = 1
    /\ support_call.cooldown_seconds = 3
    /\ DOMAIN last_support_time = SupportUsers
    /\ \E u \in SupportUsers : last_support_time[u] > 1 /\ last_support_time[u] < now


(***************************************************************************)
(* C33: is_rules_capture_active(chat) returns true exactly when a pending  *)
(* request exists for the chat and its age is at most                      *)
(* RULES_CAPTURE_TIMEOUT; a check that finds the request expired removes   *)
(* it; after expiry or cancel_rules_capture every check returns false      *)
(* until the next start_rules_capture of that chat, and only a start makes *)
(* a request appear; the requests of other chats are unchanged.            *)
(***************************************************************************)
PendingFresh(c) ==
    /\ c \in DOMAIN pending_rules_requests
    /\ now - pending_rules_requests[c].ts <= RULES_CAPTURE_TIMEOUT

\* started, not cancelled since, and not older than the timeout
CaptureLive(c) ==
    /\ c \in DOMAIN rules_started
    /\ ~rules_started[c].cancelled
    /\ now - rules_started[c].ts <= RULES_CAPTURE_TIMEOUT

RulesCallChecked ==
    rules_call' # rules_call =>
        LET call == rules_call'
            c == call.chat_id
        IN /\ \A d \in Chats \ {c} :
                  /\ (d \in DOMAIN pending_rules_requests') = (d \in DOMAIN pending_rules_requests)
                  /\ d \in DOMAIN pending_rules_requests
                         => pending_rules_requests'[d] = pending_rules_requests[d]
           /\ call.op = "check" =>
                  /\ call.result = PendingFresh(c)
                  /\ call.result = CaptureLive(c)
                  /\ call.result => pending_rules_requests' = pending_rules_requests
                  /\ ~call.result => c \notin DOMAIN pending_rules_requests'
           /\ call.op = "cancel" => c \notin DOMAIN pending_rules_requests'
           /\ call.op = "start" =>
                  /\ c \in DOMAIN pending_rules_requests'
                  /\ pending_rules_requests'[c].ts = now
           /\ (c \in DOMAIN pending_rules_requests' /\ c \notin DOMAIN pending_rules_requests)
                  => call.op = "start"

C33_RulesCaptureWindow == [][RulesCallChecked]_vars

\* a check removed an expired request while the other chat's request is still fresh
C33_Witness ==
    /\ rules_call.op = "check"
    /\ ~rules_call.result
    /\ rules_call.chat_id \in DOMAIN rules_started
    /\ ~rules_started[rules_call.chat_id].cancelled
    /\ rules_call.chat_id \notin DOMAIN pending_rules_requests
    /\ \E d \in Chats \ {rules_call.chat_id} : PendingFresh(d)


(***************************************************************************)
(* C34: after any sequence of add_saved_style, delete_saved_style,         *)
(* get_saved_style and get_saved_styles calls, a cached list is the list   *)
(* of the user's stored styles in id order, and get_saved_styles(user)     *)
(* has returned and will return exactly that list.                         *)
(***************************************************************************)
C34_SavedStylesCacheCoherent ==
    /\ \A u \in DOMAIN saved_styles_cache :
           saved_styles_cache[u] = db_get_saved_styles(saved_styles, u)
    /\ \A u \in StyleUsers :
           get_saved_styles(saved_styles_cache, saved_styles, u).styles
               = db_get_saved_styles(saved_styles, u)
    /\ styles_call.op = "get_saved_styles" =>
           styles_call.styles = db_get_saved_styles(saved_styles, styles_call.user_id)

\* a read after the older of the user's two styles was deleted, both lists cached
C34_Witness ==
    /\ styles_call.op = "get_saved_styles"
    /\ saved_style_seq = MaxStyles
    /\ Len(styles_call.styles) = 1
    /\ styles_call.styles[1].id = MaxStyles
    /\ \A r \in saved_styles : r.user_id = styles_call.user_id
    /\ DOMAIN saved_styles_cache = StyleUsers


(***************************************************************************)
(* C35: after any sequence of set_user_style, set_active_saved_style,      *)
(* reset_user_style, add_saved_style and delete_saved_style calls, the     *)
(* active saved-style id of a user is None or the id of a saved style the  *)
(* user still has.                                                         *)
(***************************************************************************)
ActiveIdOf(u) ==
    get_active_saved_style_id(active_saved_style_cache, user_settings, u).value

ActiveStyleExists(u) ==
    \/ ActiveIdOf(u) = None
    \/ \E r \in saved_styles : r.user_id = u /\ PyInt(r.id) = ActiveIdOf(u)

C35_ActiveStyleExists == \A u \in StyleUsers : ActiveStyleExists(u)

\* the part of C35 that holds: only a delete that removed a row makes the active id
\* dangle, and reset_user_style leaves no active id
C35_OnlyDeleteBreaks ==
    [][/\ \A u \in StyleUsers :
              (ActiveStyleExists(u) /\ ~ActiveStyleExists(u)')
                  => /\ styles_call'.op = "delete_saved_style"
                     /\ styles_call'.ok
                     /\ styles_call'.user_id = u
                     /\ styles_call'.arg = ActiveIdOf(u)
       /\ \A u \in StyleUsers :
              (styles_call'.op = "reset_user_style" /\ styles_call'.user_id = u)
                  => ActiveIdOf(u)' = None]_vars

====
